---- MODULE Spec2Model ----
(***************************************************************************)
(* Model of the abbadingo crate (CmdSuzdal/cmdsuzdal_rs): the 8x8 BitBoard *)
(* and the ChessArmy controlled-cells / possible-moves generator.          *)
(*                                                                         *)
(* A BitBoard (one u64, bit i <=> cell i active) is modelled as the set of *)
(* its active cells, a subset of 0..63: |, & and ^ on the 64-bit word are  *)
(* union, intersection and symmetric difference of these sets.             *)
(* Option<Cell> is a cell, or None.  An operation that can reach           *)
(* Option::unwrap() on None returns a record with the flag panic.          *)
(***************************************************************************)
EXTENDS Integers, FiniteSets, Sequences, Bags, TLC

\* ------------------------------------------------------------------------
\* bbdefines.rs
\* ------------------------------------------------------------------------
NUM_CELLS == 64
NUM_FILES == 8
NUM_RANKS == 8

Cell == 0 .. (NUM_CELLS - 1)
File == 0 .. (NUM_FILES - 1)
Rank == 0 .. (NUM_RANKS - 1)

\* The None of Option<Cell>, Option<File>, Option<Rank>
None == -1

\* num::FromPrimitive::from_i32 / from_usize / from_u32 for Cell
cell_from_i32(v) == IF v \in Cell THEN v ELSE None

\* num::FromPrimitive::from_i32 for File
file_from_i32(v) == IF v \in File THEN v ELSE None

\* num::FromPrimitive::from_i32 for Rank
rank_from_i32(v) == IF v \in Rank THEN v ELSE None

to_cell(f, r) == r * 8 + f

file(c) == c % 8

rank(c) == c \div 8

FileA == 0
FileH == 7
Rank1 == 0
Rank2 == 1
Rank7 == 6
Rank8 == 7

west(c) == file_from_i32(file(c) - 1)

east(c) == file_from_i32(file(c) + 1)

south(c) == rank_from_i32(rank(c) - 1)

north(c) == rank_from_i32(rank(c) + 1)

w(c) == IF file(c) = FileA THEN None ELSE cell_from_i32(c - 1)

nw(c) == IF file(c) = FileA THEN None ELSE cell_from_i32(c + 7)

n(c) == IF rank(c) = Rank8 THEN None ELSE cell_from_i32(c + 8)

ne(c) == IF file(c) = FileH THEN None ELSE cell_from_i32(c + 9)

e(c) == IF file(c) = FileH THEN None ELSE cell_from_i32(c + 1)

\* se without the test of the file
se_unguarded(c) == cell_from_i32(c - 7)

se(c) == IF file(c) = FileH THEN None ELSE cell_from_i32(c - 7)

s(c) == IF rank(c) = Rank1 THEN None ELSE cell_from_i32(c - 8)

sw(c) == IF file(c) = FileA THEN None ELSE cell_from_i32(c - 9)

\* i32::MAX and i32::MIN
MaxI32 == 2147483647
MinI32 == (-MaxI32) - 1

\* a + b leaves the range of i32: the addition panics when the build checks
\* for overflows (the default of the dev and test profiles) and wraps
\* otherwise (the default of the release profile)
i32_add_overflows(a, b) ==
    \/ (b > 0 /\ a > MaxI32 - b)
    \/ (b < 0 /\ a < MinI32 - b)

\* a + b modulo 2^32, in two's complement
i32_wrapping_add(a, b) ==
    IF b > 0 /\ a > MaxI32 - b THEN ((a - 1) + (b - MaxI32)) + MinI32
    ELSE IF b < 0 /\ a < MinI32 - b THEN ((a + 1) + (b - MinI32)) + MaxI32
    ELSE a + b

\* the cell reached by index arithmetic alone
calc_cell_after_steps_by_index(c, step_north, step_east) ==
    cell_from_i32(c + 8 * step_north + step_east)

\* the result of calc_cell_after_steps when its additions do not panic
calc_cell_after_steps(c, step_north, step_east) ==
    LET vr == rank_from_i32(i32_wrapping_add(rank(c), step_north))
        vf == file_from_i32(i32_wrapping_add(file(c), step_east))
    IN  IF vr # None /\ vf # None THEN to_cell(vf, vr) ELSE None

\* one of the two additions of calc_cell_after_steps overflows
calc_cell_after_steps_overflows(c, step_north, step_east) ==
    \/ i32_add_overflows(rank(c), step_north)
    \/ i32_add_overflows(file(c), step_east)

\* a BitBoardState written as in the source, as the eight bytes of the u64
\* from the most significant one: the set of the bits that are 1
u64_cells(bytes) ==
    { c \in Cell : (bytes[8 - (c \div 8)] \div (2 ^ (c % 8))) % 2 = 1 }

\* state << k on a u64: the bits moved past bit 63 are lost
u64_shl(state, k) == { c + k : c \in state } \cap Cell

\* FILES_BBS[i]: 0x0101010101010101 << i
FILES_BBS ==
    [i \in 0 .. 7 |->
        u64_shl(u64_cells(<<\h01, \h01, \h01, \h01, \h01, \h01, \h01, \h01>>), i)]

\* RANKS_BBS[i]: 0x00000000000000FF << (8 * i)
RANKS_BBS ==
    [i \in 0 .. 7 |->
        u64_shl(u64_cells(<<\h00, \h00, \h00, \h00, \h00, \h00, \h00, \hFF>>), 8 * i)]

\* enum Diagonal: Diag0 .. Diag14 as 0 .. 14
Diagonal == 0 .. 14

\* enum AntiDiagonal: AntiDiag0 .. AntiDiag14 as 0 .. 14
AntiDiagonal == 0 .. 14

\* num::FromPrimitive::from_i32 for Diagonal
diagonal_from_i32(v) == IF v \in Diagonal THEN v ELSE None

\* num::FromPrimitive::from_i32 for AntiDiagonal
anti_diagonal_from_i32(v) == IF v \in AntiDiagonal THEN v ELSE None

\* DIAGS_BBS[d]
DIAGS_BBS ==
    LET t == <<
      u64_cells(<<\h01, \h00, \h00, \h00, \h00, \h00, \h00, \h00>>),
      u64_cells(<<\h02, \h01, \h00, \h00, \h00, \h00, \h00, \h00>>),
      u64_cells(<<\h04, \h02, \h01, \h00, \h00, \h00, \h00, \h00>>),
      u64_cells(<<\h08, \h04, \h02, \h01, \h00, \h00, \h00, \h00>>),
      u64_cells(<<\h10, \h08, \h04, \h02, \h01, \h00, \h00, \h00>>),
      u64_cells(<<\h20, \h10, \h08, \h04, \h02, \h01, \h00, \h00>>),
      u64_cells(<<\h40, \h20, \h10, \h08, \h04, \h02, \h01, \h00>>),
      u64_cells(<<\h80, \h40, \h20, \h10, \h08, \h04, \h02, \h01>>),
      u64_cells(<<\h00, \h80, \h40, \h20, \h10, \h08, \h04, \h02>>),
      u64_cells(<<\h00, \h00, \h80, \h40, \h20, \h10, \h08, \h04>>),
      u64_cells(<<\h00, \h00, \h00, \h80, \h40, \h20, \h10, \h08>>),
      u64_cells(<<\h00, \h00, \h00, \h00, \h80, \h40, \h20, \h10>>),
      u64_cells(<<\h00, \h00, \h00, \h00, \h00, \h80, \h40, \h20>>),
      u64_cells(<<\h00, \h00, \h00, \h00, \h00, \h00, \h80, \h40>>),
      u64_cells(<<\h00, \h00, \h00, \h00, \h00, \h00, \h00, \h80>>)>>
    IN  [d \in Diagonal |-> t[d + 1]]

\* ANTIDIAGS_BBS[a]
ANTIDIAGS_BBS ==
    LET t == <<
      u64_cells(<<\h00, \h00, \h00, \h00, \h00, \h00, \h00, \h01>>),
      u64_cells(<<\h00, \h00, \h00, \h00, \h00, \h00, \h01, \h02>>),
      u64_cells(<<\h00, \h00, \h00, \h00, \h00, \h01, \h02, \h04>>),
      u64_cells(<<\h00, \h00, \h00, \h00, \h01, \h02, \h04, \h08>>),
      u64_cells(<<\h00, \h00, \h00, \h01, \h02, \h04, \h08, \h10>>),
      u64_cells(<<\h00, \h00, \h01, \h02, \h04, \h08, \h10, \h20>>),
      u64_cells(<<\h00, \h01, \h02, \h04, \h08, \h10, \h20, \h40>>),
      u64_cells(<<\h01, \h02, \h04, \h08, \h10, \h20, \h40, \h80>>),
      u64_cells(<<\h02, \h04, \h08, \h10, \h20, \h40, \h80, \h00>>),
      u64_cells(<<\h04, \h08, \h10, \h20, \h40, \h80, \h00, \h00>>),
      u64_cells(<<\h08, \h10, \h20, \h40, \h80, \h00, \h00, \h00>>),
      u64_cells(<<\h10, \h20, \h40, \h80, \h00, \h00, \h00, \h00>>),
      u64_cells(<<\h20, \h40, \h80, \h00, \h00, \h00, \h00, \h00>>),
      u64_cells(<<\h40, \h80, \h00, \h00, \h00, \h00, \h00, \h00>>),
      u64_cells(<<\h80, \h00, \h00, \h00, \h00, \h00, \h00, \h00>>)>>
    IN  [a \in AntiDiagonal |-> t[a + 1]]

\* the diagonal counted from the other corner: rank - file + 7
diagonal_mirrored(c) == diagonal_from_i32(rank(c) - file(c) + 7)

diagonal(c) == diagonal_from_i32(file(c) - rank(c) + 7)

anti_diagonal(c) == anti_diagonal_from_i32(file(c) + rank(c))

single_cell(c) == {c}

\* a ^ b on two bitboard states
BitXor(a, b) == (a \ b) \cup (b \ a)

\* the neighbours of a cell taken by index arithmetic alone
neighbour_by_index(c) ==
    {c - 9, c - 8, c - 7, c - 1, c + 1, c + 7, c + 8, c + 9} \cap Cell

neighbour(c) ==
    LET fm0 == FILES_BBS[file(c)]
        fm1 == fm0 \cup (IF west(c) # None THEN FILES_BBS[west(c)] ELSE {})
        file_mask == fm1 \cup (IF east(c) # None THEN FILES_BBS[east(c)] ELSE {})
        rm0 == RANKS_BBS[rank(c)]
        rm1 == rm0 \cup (IF north(c) # None THEN RANKS_BBS[north(c)] ELSE {})
        rank_mask == rm1 \cup (IF south(c) # None THEN RANKS_BBS[south(c)] ELSE {})
    IN  BitXor(file_mask \cap rank_mask, single_cell(c))

file_mask(c) == FILES_BBS[file(c)]

rank_mask(c) == RANKS_BBS[rank(c)]

diag_mask(c) == DIAGS_BBS[diagonal(c)]

antidiag_mask(c) == ANTIDIAGS_BBS[anti_diagonal(c)]

\* ------------------------------------------------------------------------
\* bitboard.rs
\* ------------------------------------------------------------------------
EMPTY_STATE == {}

BitBoard_new == EMPTY_STATE

\* BitBoard::from(mask)
BitBoard_from(mask) == mask

is_empty(bb) == bb = EMPTY_STATE

set_cell(bb, c) == bb \cup {c}

\* !(1 << c): every bit but bit c
not_single_cell(c) == Cell \ {c}

\* reset_cell that toggles the bit
reset_cell_toggling(bb, c) == BitXor(bb, single_cell(c))

reset_cell(bb, c) == bb \cap BitBoard_from(not_single_cell(c))

clear(bb) == EMPTY_STATE

\* from_cells: set_cell for every cell of the slice, in order
RECURSIVE from_cells_loop(_, _, _)
from_cells_loop(bb, cells, i) ==
    IF i > Len(cells) THEN bb
    ELSE from_cells_loop(set_cell(bb, cells[i]), cells, i + 1)

from_cells(cells) == from_cells_loop(BitBoard_new, cells, 1)

cell_is_active(bb, c) == ({c} \cap bb) # {}

set_cell_from_file_and_rank(bb, f, r) == bb \cup single_cell(to_cell(f, r))

set_rank(bb, r) == bb \cup RANKS_BBS[r]

\* self.state |= rhs.state
bitor_assign(bb, rhs) == bb \cup rhs

\* self.state &= rhs.state
bitand_assign(bb, rhs) == bb \cap rhs

\* self.state ^= rhs.state
bitxor_assign(bb, rhs) == BitXor(bb, rhs)

\* *self &= BitBoard::from(!(RANKS_BBS[r])): every bit but the ones of the rank
reset_rank(bb, r) == bitand_assign(bb, BitBoard_from(Cell \ RANKS_BBS[r]))

set_file(bb, f) == bitor_assign(bb, BitBoard_from(FILES_BBS[f]))

reset_file(bb, f) == bitand_assign(bb, BitBoard_from(Cell \ FILES_BBS[f]))

set_diagonal(bb, d) == bitor_assign(bb, BitBoard_from(DIAGS_BBS[d]))

set_antidiagonal(bb, d) == bitor_assign(bb, BitBoard_from(ANTIDIAGS_BBS[d]))

\* set_cell for every cell of the slice, in order: the loop of from_cells
\* on the board itself
set_cells(bb, cells) == from_cells_loop(bb, cells, 1)

reset_cell_from_file_and_rank(bb, f, r) ==
    bitand_assign(bb, BitBoard_from(Cell \ single_cell(to_cell(f, r))))

\* reset_cell for every cell of the slice, in order
RECURSIVE reset_cells_loop(_, _, _)
reset_cells_loop(bb, cells, i) ==
    IF i > Len(cells) THEN bb
    ELSE reset_cells_loop(reset_cell(bb, cells[i]), cells, i + 1)

reset_cells(bb, cells) == reset_cells_loop(bb, cells, 1)

\* the least significant 1 bit of a non-empty state
LS1B(bbs) == CHOOSE c \in bbs : \A d \in bbs : c <= d

\* one turn of `while bbs != 0 { cnt += 1; bbs &= bbs - 1; }` on the loop
\* variables st = [cnt, bbs]; nothing changes once the loop has ended
pop_count_iteration(st) ==
    IF st.bbs = EMPTY_STATE THEN st
    ELSE [cnt |-> st.cnt + 1, bbs |-> st.bbs \ {LS1B(st.bbs)}]

\* pop_count: clear the least significant 1 bit until the state is 0; the
\* loop is unrolled eight times, so that a full board takes eight steps of
\* the recursion
RECURSIVE pop_count_loop(_)
pop_count_loop(st) ==
    IF st.bbs = EMPTY_STATE THEN st.cnt
    ELSE LET st1 == pop_count_iteration(st)
             st2 == pop_count_iteration(st1)
             st3 == pop_count_iteration(st2)
             st4 == pop_count_iteration(st3)
             st5 == pop_count_iteration(st4)
             st6 == pop_count_iteration(st5)
             st7 == pop_count_iteration(st6)
         IN  pop_count_loop(pop_count_iteration(st7))

\* the position of the most significant 1 bit, plus one
pop_count_bit_length(bb) ==
    IF bb = EMPTY_STATE THEN 0
    ELSE (CHOOSE c \in bb : \A d \in bb : c >= d) + 1

pop_count(bb) == pop_count_loop([cnt |-> 0, bbs |-> bb])

\* active_cell: the first active cell when pop_count is 1, else None
active_cell_loop(bb, ndx) ==
    LET found == { c \in ndx .. NUM_CELLS - 1 : cell_is_active(bb, cell_from_i32(c)) }
    IN  IF found = {} THEN None
        ELSE cell_from_i32(CHOOSE c \in found : \A d \in found : c <= d)

\* the first active cell, whatever the number of active cells
active_cell_first(bb) == active_cell_loop(bb, 0)

active_cell(bb) ==
    IF pop_count(bb) = 1 THEN active_cell_loop(bb, 0) ELSE None

\* ------------------------------------------------------------------------
\* chessdefines.rs
\* ------------------------------------------------------------------------
ArmyColour == {"White", "Black"}

ChessPiece == {"King", "Queen", "Bishop", "Knight", "Rook", "Pawn"}

NUM_PIECES_TYPES == 6

\* ------------------------------------------------------------------------
\* chessarmy.rs
\* ------------------------------------------------------------------------
\* Cell::A2, Cell::A8, Cell::H8 as usize
A1 == 0
A2 == 8
A8 == 56
H8 == 63

\* Result of an operation that may panic (Option::unwrap() on None)
Ok(bb) == [panic |-> FALSE, bb |-> bb]
Panicked == [panic |-> TRUE, bb |-> {}]

\* ChessArmy::new(c)
ChessArmy_new(c) ==
    [pieces_bmask |-> [cp \in ChessPiece |-> BitBoard_new], colour |-> c]

get_pieces(a, cp) == a.pieces_bmask[cp]

\* Cell::A1 .. Cell::H1 and Cell::A8 .. Cell::H8 as used by reset
B1 == 1
C1 == 2
D1 == 3
E1 == 4
F1 == 5
G1 == 6
H1 == 7
B8 == 57
C8 == 58
D8 == 59
E8 == 60
F8 == 61
G8 == 62

\* a deployment with the pawns on the rank of the pieces
reset_pawns_on_first_rank(a, c) ==
    [colour |-> c,
     pieces_bmask |->
       [cp \in ChessPiece |->
          CASE cp = "King"   -> {IF c = "White" THEN 4 ELSE 60}
            [] cp = "Queen"  -> {IF c = "White" THEN 3 ELSE 59}
            [] cp = "Bishop" -> IF c = "White" THEN {2, 5} ELSE {58, 61}
            [] cp = "Knight" -> IF c = "White" THEN {1, 6} ELSE {57, 62}
            [] cp = "Rook"   -> IF c = "White" THEN {0, 7} ELSE {56, 63}
            [] cp = "Pawn"   -> IF c = "White" THEN 0 .. 7 ELSE 56 .. 63]]

reset(a, c) ==
    IF c = "White"
    THEN [colour |-> c,
          pieces_bmask |->
            [cp \in ChessPiece |->
               CASE cp = "King"   -> from_cells(<<E1>>)
                 [] cp = "Queen"  -> from_cells(<<D1>>)
                 [] cp = "Bishop" -> from_cells(<<C1, F1>>)
                 [] cp = "Knight" -> from_cells(<<B1, G1>>)
                 [] cp = "Rook"   -> from_cells(<<A1, H1>>)
                 [] cp = "Pawn"   -> set_rank(BitBoard_new, Rank2)]]
    ELSE [colour |-> c,
          pieces_bmask |->
            [cp \in ChessPiece |->
               CASE cp = "King"   -> from_cells(<<E8>>)
                 [] cp = "Queen"  -> from_cells(<<D8>>)
                 [] cp = "Bishop" -> from_cells(<<C8, F8>>)
                 [] cp = "Knight" -> from_cells(<<B8, G8>>)
                 [] cp = "Rook"   -> from_cells(<<A8, H8>>)
                 [] cp = "Pawn"   -> set_rank(BitBoard_new, Rank7)]]

\* ChessArmy::initial(c)
initial(c) == reset(ChessArmy_new(c), c)

\* place_pieces that overwrites the bitboard of the piece type
place_pieces_replacing(a, cp, cells) ==
    [a EXCEPT !.pieces_bmask[cp] = from_cells(cells)]

place_pieces(a, cp, cells) ==
    [a EXCEPT !.pieces_bmask[cp] = @ \cup from_cells(cells)]

num_pieces(a) ==
    pop_count(get_pieces(a, "King"))
    + pop_count(get_pieces(a, "Queen"))
    + pop_count(get_pieces(a, "Bishop"))
    + pop_count(get_pieces(a, "Knight"))
    + pop_count(get_pieces(a, "Rook"))
    + pop_count(get_pieces(a, "Pawn"))

occupied_cells(a) ==
    get_pieces(a, "King") \cup get_pieces(a, "Queen") \cup get_pieces(a, "Pawn")
    \cup get_pieces(a, "Bishop") \cup get_pieces(a, "Knight") \cup get_pieces(a, "Rook")

\* Option<ChessPiece>: a piece type or "None"
\* the six bitboards tested from Pawn to King
get_piece_in_cell_pawn_first(a, c) ==
    IF cell_is_active(get_pieces(a, "Pawn"), c) THEN "Pawn"
    ELSE IF cell_is_active(get_pieces(a, "Rook"), c) THEN "Rook"
    ELSE IF cell_is_active(get_pieces(a, "Knight"), c) THEN "Knight"
    ELSE IF cell_is_active(get_pieces(a, "Bishop"), c) THEN "Bishop"
    ELSE IF cell_is_active(get_pieces(a, "Queen"), c) THEN "Queen"
    ELSE IF cell_is_active(get_pieces(a, "King"), c) THEN "King"
    ELSE "None"

get_piece_in_cell(a, c) ==
    IF cell_is_active(get_pieces(a, "King"), c) THEN "King"
    ELSE IF cell_is_active(get_pieces(a, "Queen"), c) THEN "Queen"
    ELSE IF cell_is_active(get_pieces(a, "Bishop"), c) THEN "Bishop"
    ELSE IF cell_is_active(get_pieces(a, "Knight"), c) THEN "Knight"
    ELSE IF cell_is_active(get_pieces(a, "Rook"), c) THEN "Rook"
    ELSE IF cell_is_active(get_pieces(a, "Pawn"), c) THEN "Pawn"
    ELSE "None"

\* active_cell().unwrap(): [panic |-> TRUE] when there is not exactly one king
get_king_position(a) ==
    LET k == active_cell(get_pieces(a, "King"))
    IN  IF k = None THEN [panic |-> TRUE, cell |-> None]
        ELSE [panic |-> FALSE, cell |-> k]

king_controlled_cells(a) ==
    LET k == get_king_position(a)
    IN  IF k.panic THEN Panicked ELSE Ok(neighbour(k.cell))

\* the two cells by index arithmetic, without the test on the file
pawn_controlled_cells_by_index(c, ac) ==
    IF ac = "White" THEN {c + 7, c + 9} \cap Cell ELSE {c - 9, c - 7} \cap Cell

pawn_controlled_cells(c, ac) ==
    IF ac = "White"
    THEN (IF nw(c) # None THEN {nw(c)} ELSE {}) \cup (IF ne(c) # None THEN {ne(c)} ELSE {})
    ELSE (IF sw(c) # None THEN {sw(c)} ELSE {}) \cup (IF se(c) # None THEN {se(c)} ELSE {})

\* pawns_controlled_cells scanning all the 64 cells, rank 1 and rank 8 too
RECURSIVE pawns_loop_all_ranks(_, _, _, _)
pawns_loop_all_ranks(a, bb, remaining_pawns, cell_ndx) ==
    LET pawns == { c \in cell_ndx .. 63 : c \in a.pieces_bmask["Pawn"] }
    IN  IF ~(remaining_pawns > 0) \/ pawns = {} THEN bb
        ELSE LET c == CHOOSE x \in pawns : \A y \in pawns : x <= y
             IN  pawns_loop_all_ranks(a, bb \cup pawn_controlled_cells(c, a.colour),
                                      remaining_pawns - 1, c + 1)

pawns_controlled_cells_all_ranks(a) ==
    pawns_loop_all_ranks(a, {}, Cardinality(a.pieces_bmask["Pawn"]), 0)

\* the while loop of pawns_controlled_cells
\* The loops of pawns_/knights_/bishops_/rooks_controlled_cells scan the
\* cells one by one; an iteration on a cell where get_piece_in_cell is not cp
\* only increments cell_ndx.  next_piece_cell is the cell the scan stops on
\* next: the first cell from cell_ndx to last (included) where
\* get_piece_in_cell is cp, None when the scan runs off the last cell.
next_piece_cell(a, cp, cell_ndx, last) ==
    LET found == { c \in cell_ndx .. last : get_piece_in_cell(a, c) = cp }
    IN  IF found = {} THEN None
        ELSE CHOOSE c \in found : \A d \in found : c <= d

\* while cell_ndx < A8 && remaining_pawns > 0
RECURSIVE pawns_loop(_, _)
pawns_loop(a, st) ==
    IF ~(st.remaining_pawns > 0) THEN st.bb
    ELSE LET c == next_piece_cell(a, "Pawn", st.cell_ndx, A8 - 1)
         IN  IF c = None THEN st.bb
             ELSE pawns_loop(a, [bb |-> st.bb \cup pawn_controlled_cells(c, a.colour),
                  remaining_pawns |-> st.remaining_pawns - 1, cell_ndx |-> c + 1])

pawns_controlled_cells(a) ==
    pawns_loop(a, [bb |-> BitBoard_new, cell_ndx |-> A2,
                   remaining_pawns |-> pop_count(get_pieces(a, "Pawn"))])

\* the eight (step_north, step_east) pairs, in the order of the source
KnightSteps ==
    << <<2, 1>>, <<1, 2>>, <<-1, 2>>, <<-2, 1>>, <<-2, -1>>, <<-1, -2>>, <<1, -2>>, <<2, -1>> >>

\* `if let Some(cell) = calc_cell_after_steps(c, ..) { bb.set_cell(cell); }`
\* for the steps from the i-th on
knight_jumps(bb, c, i) ==
    bb \cup UNION { LET cell == calc_cell_after_steps(c, KnightSteps[j][1], KnightSteps[j][2])
                    IN  IF cell # None THEN single_cell(cell) ELSE EMPTY_STATE :
                    j \in i .. Len(KnightSteps) }

RECURSIVE knights_loop(_, _)
knights_loop(a, st) ==
    IF ~(st.remaining > 0) THEN st.bb
    ELSE LET c == next_piece_cell(a, "Knight", st.cell_ndx, H8)
         IN  IF c = None THEN st.bb
             ELSE knights_loop(a, [bb |-> knight_jumps(st.bb, c, 1),
                  remaining |-> st.remaining - 1, cell_ndx |-> c + 1])

knights_controlled_cells(a) ==
    knights_loop(a, [bb |-> BitBoard_new, cell_ndx |-> A1,
                     remaining |-> pop_count(get_pieces(a, "Knight"))])

\* an explore loop with the test of the busy cell negated: it goes on over
\* the busy cells and breaks after a free one
RECURSIVE explore_break_on_free(_, _, _, _, _, _)
explore_break_on_free(bb, busy, file_ndx, rank_ndx, df, dr) ==
    IF ~(  (df < 0 => file_ndx >= 0) /\ (df > 0 => file_ndx < 8)
        /\ (dr < 0 => rank_ndx >= 0) /\ (dr > 0 => rank_ndx < 8))
    THEN bb
    ELSE IF (rank_ndx * 8 + file_ndx) \notin busy
         THEN bb \cup {rank_ndx * 8 + file_ndx}
         ELSE explore_break_on_free(bb \cup {rank_ndx * 8 + file_ndx}, busy,
                                    file_ndx + df, rank_ndx + dr, df, dr)

\* an explore loop that breaks before it sets the busy cell
RECURSIVE explore_break_first(_, _, _, _, _, _)
explore_break_first(bb, busy, file_ndx, rank_ndx, df, dr) ==
    IF ~(  (df < 0 => file_ndx >= 0) /\ (df > 0 => file_ndx < 8)
        /\ (dr < 0 => rank_ndx >= 0) /\ (dr > 0 => rank_ndx < 8))
    THEN bb
    ELSE IF (rank_ndx * 8 + file_ndx) \in busy THEN bb
         ELSE explore_break_first(bb \cup {rank_ndx * 8 + file_ndx}, busy,
                                  file_ndx + df, rank_ndx + dr, df, dr)

\* One "explore" loop of bishops_/rooks_controlled_cells: from (file_ndx,
\* rank_ndx) step by (df, dr) while the moving indexes stay on the board;
\* every visited cell is set, and the loop breaks after a busy cell.
RECURSIVE explore(_, _, _, _, _, _)
explore(bb, busy, file_ndx, rank_ndx, df, dr) ==
    IF ~(  (df < 0 => file_ndx >= 0) /\ (df > 0 => file_ndx < NUM_FILES)
        /\ (dr < 0 => rank_ndx >= 0) /\ (dr > 0 => rank_ndx < NUM_RANKS))
    THEN bb
    ELSE LET turn == [bb |-> set_cell_from_file_and_rank(bb, file_ndx, rank_ndx),
                      break |-> cell_is_active(busy, to_cell(file_ndx, rank_ndx))]
         IN  IF turn.break THEN turn.bb
             ELSE explore(turn.bb, busy, file_ndx + df, rank_ndx + dr, df, dr)

\* the four diagonal explorations of one bishop, in the order of the source
bishop_rays(bb, busy, f, r) ==
    LET b1 == explore(bb, busy, f - 1, r - 1, -1, -1)
        b2 == explore(b1, busy, f + 1, r + 1, 1, 1)
        b3 == explore(b2, busy, f - 1, r + 1, -1, 1)
    IN  explore(b3, busy, f + 1, r - 1, 1, -1)

RECURSIVE bishops_loop(_, _, _)
bishops_loop(a, busy, st) ==
    IF ~(st.remaining > 0) THEN st.bb
    ELSE LET c == next_piece_cell(a, "Bishop", st.cell_ndx, H8)
         IN  IF c = None THEN st.bb
             ELSE bishops_loop(a, busy, [bb |-> bishop_rays(st.bb, busy, file(c), rank(c)),
                  remaining |-> st.remaining - 1, cell_ndx |-> c + 1])

bishops_controlled_cells(a, intf_board) ==
    bishops_loop(a, occupied_cells(a) \cup intf_board,
                 [bb |-> BitBoard_new, cell_ndx |-> A1,
                  remaining |-> pop_count(get_pieces(a, "Bishop"))])

\* rook explorations whose upper side starts from the rank of the rook
rook_rays_upper_from_r(bb, busy, f, r) ==
    LET b1 == explore(bb, busy, f - 1, r, -1, 0)
        b2 == explore(b1, busy, f + 1, r, 1, 0)
        b3 == explore(b2, busy, f, r - 1, 0, -1)
    IN  explore(b3, busy, f, r, 0, 1)

\* the four orthogonal explorations of one rook, in the order of the source
rook_rays(bb, busy, f, r) ==
    LET b1 == explore(bb, busy, f - 1, r, -1, 0)
        b2 == explore(b1, busy, f + 1, r, 1, 0)
        b3 == explore(b2, busy, f, r - 1, 0, -1)
    IN  explore(b3, busy, f, r + 1, 0, 1)

RECURSIVE rooks_loop(_, _, _)
rooks_loop(a, busy, st) ==
    IF ~(st.remaining > 0) THEN st.bb
    ELSE LET c == next_piece_cell(a, "Rook", st.cell_ndx, H8)
         IN  IF c = None THEN st.bb
             ELSE rooks_loop(a, busy, [bb |-> rook_rays(st.bb, busy, file(c), rank(c)),
                  remaining |-> st.remaining - 1, cell_ndx |-> c + 1])

rooks_controlled_cells(a, intf_board) ==
    rooks_loop(a, occupied_cells(a) \cup intf_board,
               [bb |-> BitBoard_new, cell_ndx |-> A1,
                remaining |-> pop_count(get_pieces(a, "Rook"))])

\* queens_controlled_cells whose fake army drops the bishops and the rooks
\* instead of turning them into pawns
queens_controlled_cells_no_fold(a, intf_board) ==
    LET fake3 == [a EXCEPT !.pieces_bmask["Bishop"] = get_pieces(a, "Queen")]
        fake4 == [fake3 EXCEPT !.pieces_bmask["Queen"] = BitBoard_new]
        bb    == bishops_controlled_cells(fake4, intf_board)
        fake5 == [fake4 EXCEPT !.pieces_bmask["Rook"] = get_pieces(fake4, "Bishop")]
        fake6 == [fake5 EXCEPT !.pieces_bmask["Bishop"] = BitBoard_new]
    IN  bb \cup rooks_controlled_cells(fake6, intf_board)

queens_controlled_cells(a, intf_board) ==
    LET fake1 == [a EXCEPT !.pieces_bmask["Pawn"] = @ \cup get_pieces(a, "Bishop")]
        fake2 == [fake1 EXCEPT !.pieces_bmask["Pawn"] = @ \cup get_pieces(fake1, "Rook")]
        fake3 == [fake2 EXCEPT !.pieces_bmask["Bishop"] = get_pieces(fake2, "Queen")]
        fake4 == [fake3 EXCEPT !.pieces_bmask["Queen"] = BitBoard_new]
        bb    == bishops_controlled_cells(fake4, intf_board)
        fake5 == [fake4 EXCEPT !.pieces_bmask["Rook"] = get_pieces(fake4, "Bishop")]
        fake6 == [fake5 EXCEPT !.pieces_bmask["Bishop"] = BitBoard_new]
    IN  bb \cup rooks_controlled_cells(fake6, intf_board)

controlled_cells_by_piece_type(a, cp, intf_board) ==
    CASE cp = "King"   -> king_controlled_cells(a)
      [] cp = "Queen"  -> Ok(queens_controlled_cells(a, intf_board))
      [] cp = "Bishop" -> Ok(bishops_controlled_cells(a, intf_board))
      [] cp = "Knight" -> Ok(knights_controlled_cells(a))
      [] cp = "Rook"   -> Ok(rooks_controlled_cells(a, intf_board))
      [] cp = "Pawn"   -> Ok(pawns_controlled_cells(a))

\* king | queens | bishops | knights | rooks | pawns; the king term is
\* evaluated first and its panic aborts the call
controlled_cells(a, intf_board) ==
    LET k == king_controlled_cells(a)
    IN  IF k.panic THEN Panicked
        ELSE Ok(k.bb \cup queens_controlled_cells(a, intf_board)
                \cup bishops_controlled_cells(a, intf_board)
                \cup knights_controlled_cells(a)
                \cup rooks_controlled_cells(a, intf_board)
                \cup pawns_controlled_cells(a))

\* king moves that keep the cells of the army
possible_moves_for_king_over_friends(a) ==
    king_controlled_cells(a)

possible_moves_for_king(a) ==
    LET k == king_controlled_cells(a)
    IN  IF k.panic THEN Panicked
        ELSE Ok(BitXor(k.bb \cup occupied_cells(a), occupied_cells(a)))

\* possible moves of a regular piece computed on the army itself: the other
\* pieces of the type keep their role
possible_moves_for_regular_piece_all_pieces(a, cp, c, intf_board) ==
    IF get_piece_in_cell(a, c) = cp
    THEN LET ctl == controlled_cells_by_piece_type(a, cp, intf_board)
         IN  IF ctl.panic THEN Panicked
             ELSE Ok(BitXor(ctl.bb \cup occupied_cells(a), occupied_cells(a)))
    ELSE Ok(BitBoard_new)

\* possible moves of a regular piece that keep the cells of the friends
possible_moves_for_regular_piece_over_friends(a, cp, c, intf_board) ==
    LET piece_bb == from_cells(<<c>>)
    IN  IF get_piece_in_cell(a, c) = cp
        THEN LET fake1 == [a EXCEPT !.pieces_bmask["Pawn"] =
                                @ \cup BitXor(get_pieces(a, cp), piece_bb)]
                 fake_army == [fake1 EXCEPT !.pieces_bmask[cp] = piece_bb]
             IN  controlled_cells_by_piece_type(fake_army, cp, intf_board)
        ELSE Ok(BitBoard_new)

possible_moves_for_regular_piece_in_cell(a, cp, c, intf_board) ==
    LET piece_bb == from_cells(<<c>>)
    IN  IF get_piece_in_cell(a, c) = cp
        THEN LET fake1 == [a EXCEPT !.pieces_bmask["Pawn"] =
                                @ \cup BitXor(get_pieces(a, cp), piece_bb)]
                 fake_army == [fake1 EXCEPT !.pieces_bmask[cp] = piece_bb]
                 ctl == controlled_cells_by_piece_type(fake_army, cp, intf_board)
             IN  IF ctl.panic THEN Panicked
                 ELSE Ok(BitXor(ctl.bb \cup occupied_cells(a), occupied_cells(a)))
        ELSE Ok(BitBoard_new)

\* white pawn moves whose second step does not look at the cell it lands on
possible_moves_for_white_pawn_jumping(a, c, intf_board) ==
    LET busy == occupied_cells(a) \cup intf_board
        t1 == n(c)
        t2 == IF t1 # None THEN n(t1) ELSE None
        bb == IF t1 # None /\ (busy \cap {t1}) = {}
              THEN IF rank(c) = Rank2 /\ t2 # None THEN {t1, t2} ELSE {t1}
              ELSE {}
    IN  bb \cup (pawn_controlled_cells(c, a.colour) \cap intf_board)

\* white pawn moves that take every controlled cell for a capture
possible_moves_for_white_pawn_all_diagonals(a, c, intf_board) ==
    LET busy == occupied_cells(a) \cup intf_board
        t1 == n(c)
        t2 == IF t1 # None THEN n(t1) ELSE None
        bb == IF t1 # None /\ (busy \cap from_cells(<<t1>>)) = BitBoard_new
              THEN IF rank(c) = Rank2 /\ t2 # None
                      /\ (busy \cap from_cells(<<t2>>)) = BitBoard_new
                   THEN set_cell(set_cell(BitBoard_new, t1), t2)
                   ELSE set_cell(BitBoard_new, t1)
              ELSE BitBoard_new
    IN  bb \cup pawn_controlled_cells(c, a.colour)

possible_moves_for_white_pawn_in_cell(a, c, intf_board) ==
    LET busy == occupied_cells(a) \cup intf_board
        t1 == n(c)
        t2 == IF t1 # None THEN n(t1) ELSE None
        bb == IF t1 # None /\ (busy \cap from_cells(<<t1>>)) = BitBoard_new
              THEN IF rank(c) = Rank2 /\ t2 # None
                      /\ (busy \cap from_cells(<<t2>>)) = BitBoard_new
                   THEN set_cell(set_cell(BitBoard_new, t1), t2)
                   ELSE set_cell(BitBoard_new, t1)
              ELSE BitBoard_new
    IN  bb \cup (pawn_controlled_cells(c, a.colour) \cap intf_board)

\* black pawn moves that take every controlled cell for a capture
possible_moves_for_black_pawn_all_diagonals(a, c, intf_board) ==
    LET busy == occupied_cells(a) \cup intf_board
        t1 == s(c)
        t2 == IF t1 # None THEN s(t1) ELSE None
        bb == IF t1 # None /\ (busy \cap {t1}) = {}
              THEN IF rank(c) = Rank7 /\ t2 # None /\ (busy \cap {t2}) = {}
                   THEN {t1, t2} ELSE {t1}
              ELSE {}
    IN  bb \cup pawn_controlled_cells(c, a.colour)

\* the black pawn with the two-step move from rank 2, as the white one
possible_moves_for_black_pawn_from_rank_2(a, c, intf_board) ==
    LET busy == occupied_cells(a) \cup intf_board
        t1 == s(c)
        t2 == IF t1 # None THEN s(t1) ELSE None
        bb == IF t1 # None /\ (busy \cap from_cells(<<t1>>)) = BitBoard_new
              THEN IF rank(c) = Rank2 /\ t2 # None
                      /\ (busy \cap from_cells(<<t2>>)) = BitBoard_new
                   THEN set_cell(set_cell(BitBoard_new, t1), t2)
                   ELSE set_cell(BitBoard_new, t1)
              ELSE BitBoard_new
    IN  bb \cup (pawn_controlled_cells(c, a.colour) \cap intf_board)

possible_moves_for_black_pawn_in_cell(a, c, intf_board) ==
    LET busy == occupied_cells(a) \cup intf_board
        t1 == s(c)
        t2 == IF t1 # None THEN s(t1) ELSE None
        bb == IF t1 # None /\ (busy \cap from_cells(<<t1>>)) = BitBoard_new
              THEN IF rank(c) = Rank7 /\ t2 # None
                      /\ (busy \cap from_cells(<<t2>>)) = BitBoard_new
                   THEN set_cell(set_cell(BitBoard_new, t1), t2)
                   ELSE set_cell(BitBoard_new, t1)
              ELSE BitBoard_new
    IN  bb \cup (pawn_controlled_cells(c, a.colour) \cap intf_board)

\* pawn moves that do not look for a pawn in the cell
possible_moves_for_pawn_unchecked(a, c, intf_board) ==
    IF a.colour = "White"
    THEN possible_moves_for_white_pawn_in_cell(a, c, intf_board)
    ELSE possible_moves_for_black_pawn_in_cell(a, c, intf_board)

possible_moves_for_pawn_in_cell(a, c, intf_board) ==
    IF get_piece_in_cell(a, c) = "Pawn"
    THEN IF a.colour = "White"
         THEN possible_moves_for_white_pawn_in_cell(a, c, intf_board)
         ELSE possible_moves_for_black_pawn_in_cell(a, c, intf_board)
    ELSE BitBoard_new

possible_moves_for_piece_in_cell(a, cp, c, intf_board) ==
    CASE cp = "King" -> possible_moves_for_king(a)
      [] cp = "Pawn" -> Ok(possible_moves_for_pawn_in_cell(a, c, intf_board))
      [] OTHER       -> possible_moves_for_regular_piece_in_cell(a, cp, c, intf_board)

\* ------------------------------------------------------------------------
\* State machine: one army, driven through the public interface of
\* ChessArmy (new, place_pieces, controlled_cells,
\* possible_moves_for_piece_in_cell) and through the per piece type
\* dispatcher controlled_cells_by_piece_type.
\* ------------------------------------------------------------------------
\* Bounds of the exploration
MaxPieces == 2
MaxCellsPerCall == 1
MaxIntf == 2

\* B1, B2, D2, D4, B7: cells pieces are placed on
PlaceCells == {1, 9, 11, 27, 49}

\* C3, D3, B5: cells the interference boards are made of
IntfCells == {18, 19, 33}

\* cells a query is made for
QueryCells == PlaceCells

\* the slices of cells given to place_pieces
CellSlices == UNION { [1 .. k -> PlaceCells] : k \in 1 .. MaxCellsPerCall }

\* the interference boards given to the queries
IntfBoards == { b \in SUBSET IntfCells : Cardinality(b) <= MaxIntf }

\* the interference boards given to the queries of the pawn moves: B6 and C6
\* too, the cells a Black pawn on B7 steps to and captures on
PawnIntfBoards == { b \in SUBSET (IntfCells \cup {41, 42}) : Cardinality(b) <= MaxIntf }

VARIABLES
    army,   \* the ChessArmy
    board,  \* a BitBoard on its own
    ret     \* the last call: its name, the arguments of a query and what it returned

vars == <<army, board, ret>>

Call(op, cp, c, intf, res) ==
    [op |-> op, cp |-> cp, c |-> c, intf |-> intf, panic |-> res.panic, bb |-> res.bb]

\* A query leaves the army as it is, so whatever follows a query can as well
\* follow the call before it: a scenario builds an army with place_pieces and
\* ends with one query, as the tests of chessarmy.rs do.
Building == ret.op \in {"new", "place_pieces"}

Init ==
    /\ \E colour \in ArmyColour : army = ChessArmy_new(colour)
    /\ board = BitBoard_new
    /\ ret = Call("new", "None", None, {}, Ok({}))

PlacePieces ==
    \E cp \in ChessPiece, cells \in CellSlices :
        /\ Building
        /\ num_pieces(place_pieces(army, cp, cells)) <= MaxPieces
        /\ army' = place_pieces(army, cp, cells)
        /\ ret' = Call("place_pieces", "None", None, {}, Ok({}))
        /\ UNCHANGED board

ControlledCells ==
    \E intf \in IntfBoards :
        /\ Building
        /\ ret' = Call("controlled_cells", "None", None, intf, controlled_cells(army, intf))
        /\ UNCHANGED <<army, board>>

ControlledCellsByPieceType ==
    \E cp \in ChessPiece, intf \in IntfBoards :
        /\ Building
        /\ ret' = Call("controlled_cells_by_piece_type", cp, None, intf,
                       controlled_cells_by_piece_type(army, cp, intf))
        /\ UNCHANGED <<army, board>>

\* possible_moves_for_piece_in_cell for the piece types of cps and the
\* interference boards of intfs
PossibleMovesOf(cps, intfs) ==
    \E cp \in cps, c \in QueryCells, intf \in intfs :
        /\ Building
        /\ ret' = Call("possible_moves_for_piece_in_cell", cp, c, intf,
                       possible_moves_for_piece_in_cell(army, cp, c, intf))
        /\ UNCHANGED <<army, board>>

PossibleMovesForPieceInCell == PossibleMovesOf(ChessPiece, IntfBoards)

\* the match arm of the pawn
PawnMoves == PossibleMovesOf({"Pawn"}, IntfBoards)

\* the match arm of the pawn, with the interference boards that reach the
\* cells ahead of a Black pawn
PawnMovesAndCaptures == PossibleMovesOf({"Pawn"}, PawnIntfBoards)

\* the match arm of the "regular" pieces
RegularPieceMoves == PossibleMovesOf({"Queen", "Bishop", "Knight", "Rook"}, IntfBoards)

Next ==
    \/ PlacePieces
    \/ ControlledCells
    \/ ControlledCellsByPieceType
    \/ PossibleMovesForPieceInCell

\* every call of the interface
Spec == Init /\ [][Next]_vars

NextControl ==
    \/ PlacePieces
    \/ ControlledCellsByPieceType

\* the controlled cells of each piece type
SpecControl == Init /\ [][NextControl]_vars

NextPawnMoves ==
    \/ PlacePieces
    \/ PawnMovesAndCaptures

\* the moves of the pawns
SpecPawnMoves == Init /\ [][NextPawnMoves]_vars

NextPieceMoves ==
    \/ PlacePieces
    \/ RegularPieceMoves

\* the moves of queens, bishops, knights and rooks
SpecPieceMoves == Init /\ [][NextPieceMoves]_vars

NextMoves ==
    \/ PlacePieces
    \/ PawnMoves
    \/ RegularPieceMoves

\* the moves of every piece type that is looked up in the given cell
SpecMoves == Init /\ [][NextMoves]_vars

\* place_pieces(cp, &[c]) as the first call on a new army, for any cell c of
\* the board
PlaceFirstAnywhere(cp) ==
    \E c \in Cell :
        /\ ret.op = "new"
        /\ army' = place_pieces(army, cp, <<c>>)
        /\ ret' = Call("place_pieces", "None", None, {}, Ok({}))
        /\ UNCHANGED board

PlaceKing == PlaceFirstAnywhere("King")

PlaceKnight == PlaceFirstAnywhere("Knight")

\* controlled_cells_by_piece_type(King, intf): the king does not look at the
\* interference board
KingControlledCells ==
    \E intf \in {BitBoard_new, IntfCells} :
        /\ Building
        /\ ret' = Call("controlled_cells_by_piece_type", "King", None, intf,
                       controlled_cells_by_piece_type(army, "King", intf))
        /\ UNCHANGED <<army, board>>

\* possible_moves_for_piece_in_cell(King, c, intf) for the cell of a king
KingMoves ==
    \E c \in get_pieces(army, "King"), intf \in IntfBoards :
        /\ Building
        /\ ret' = Call("possible_moves_for_piece_in_cell", "King", c, intf,
                       possible_moves_for_piece_in_cell(army, "King", c, intf))
        /\ UNCHANGED <<army, board>>

NextKing ==
    \/ PlaceKing
    \/ PlacePieces
    \/ KingControlledCells
    \/ KingMoves

\* a king on any cell, next to other pieces
SpecKing == Init /\ [][NextKing]_vars

\* place_pieces(King, &[c]) as the first call on a new army, on a cell the
\* interference boards are made of
PlaceKingNear ==
    \E c \in IntfCells :
        /\ ret.op = "new"
        /\ army' = place_pieces(army, "King", <<c>>)
        /\ ret' = Call("place_pieces", "None", None, {}, Ok({}))
        /\ UNCHANGED board

\* possible_moves_for_piece_in_cell of an army with one king, for any piece
\* type, on a cell of the army or on A1, which is free
MovesOfArmyWithKing ==
    /\ Building
    /\ pop_count(get_pieces(army, "King")) = 1
    /\ \E cp \in ChessPiece, c \in occupied_cells(army) \cup {A1}, intf \in IntfBoards :
          ret' = Call("possible_moves_for_piece_in_cell", cp, c, intf,
                      possible_moves_for_piece_in_cell(army, cp, c, intf))
    /\ UNCHANGED <<army, board>>

NextNear ==
    \/ PlaceKingNear
    \/ PlacePieces
    \/ MovesOfArmyWithKing

\* the moves of an army whose king may stand on a cell of the interference
\* board
SpecNear == Init /\ [][NextNear]_vars

\* controlled_cells(intf) of an army with one king
ControlledCellsOfArmyWithKing ==
    /\ Building
    /\ pop_count(get_pieces(army, "King")) = 1
    /\ \E intf \in IntfBoards :
          ret' = Call("controlled_cells", "None", None, intf, controlled_cells(army, intf))
    /\ UNCHANGED <<army, board>>

NextBlockers ==
    \/ PlaceKingNear
    \/ PlacePieces
    \/ ControlledCellsOfArmyWithKing

\* the cells controlled by an army with one king, under every interference
\* board
SpecBlockers == Init /\ [][NextBlockers]_vars

\* controlled_cells_by_piece_type(Knight, intf): the knights do not look at
\* the interference board
KnightsControlledCells ==
    \E intf \in {BitBoard_new, IntfCells} :
        /\ Building
        /\ ret' = Call("controlled_cells_by_piece_type", "Knight", None, intf,
                       controlled_cells_by_piece_type(army, "Knight", intf))
        /\ UNCHANGED <<army, board>>

NextKnight ==
    \/ PlaceKnight
    \/ PlacePieces
    \/ KnightsControlledCells

\* a knight on any cell, next to other pieces
SpecKnight == Init /\ [][NextKnight]_vars

\* ChessArmy::initial(colour): a new army, reset to the standard deployment
Initial ==
    \E colour \in ArmyColour :
        /\ Building
        /\ army' = initial(colour)
        /\ ret' = Call("initial", "None", None, {}, Ok({}))
        /\ UNCHANGED board

\* occupied_cells()
OccupiedCells ==
    /\ ret.op \in {"new", "place_pieces", "initial"}
    /\ ret' = Call("occupied_cells", "None", None, {}, Ok(occupied_cells(army)))
    /\ UNCHANGED <<army, board>>

\* B1, B2, B7: cells pieces are placed on when the call is recorded
RecordedCells == {1, 9, 49}

\* the slices of cells given to place_pieces when the call is recorded: the
\* ones of one cell and of two cells, and the longer ones of CellSlices
PlaceSlices ==
    { cells \in CellSlices \cup [1 .. 2 -> PlaceCells] :
        \A i \in DOMAIN cells : cells[i] \in RecordedCells }

\* place_pieces(cp, cells), the arguments of the call recorded
PlacePiecesRecorded ==
    \E cp \in ChessPiece, cells \in PlaceSlices :
        /\ Building
        /\ num_pieces(place_pieces(army, cp, cells)) <= MaxPieces
        /\ army' = place_pieces(army, cp, cells)
        /\ ret' = [op |-> "place_pieces", cp |-> cp, cells |-> cells]
        /\ UNCHANGED board

NextPlace ==
    \/ PlacePiecesRecorded
    \/ Initial
    \/ OccupiedCells

\* the constructors, place_pieces and occupied_cells
SpecPlace == Init /\ [][NextPlace]_vars

\* get_piece_in_cell(c) for any cell
GetPieceInCell ==
    /\ ret.op \in {"new", "place_pieces", "initial"}
    /\ \E c \in Cell :
          ret' = [op |-> "get_piece_in_cell", c |-> c, piece |-> get_piece_in_cell(army, c)]
    /\ UNCHANGED <<army, board>>

NextPieceInCell ==
    \/ PlacePieces
    \/ Initial
    \/ GetPieceInCell

\* the constructors, place_pieces and get_piece_in_cell
SpecPieceInCell == Init /\ [][NextPieceInCell]_vars

\* ------------------------------------------------------------------------
\* State machine of one BitBoard: built by new(), from_cells() or from(),
\* changed by the set_ and reset_ functions, clear() and the assignment
\* operators |=, &=, ^=, read by the queries.
\* ------------------------------------------------------------------------
\* a board is followed while it holds at most MaxBoardCells active cells, or
\* at most MaxBoardCells free ones, or while it is one of the WholeBoards
MaxBoardCells == 2

\* A1, B1, H1, A2, H4, A5, A8, H8: cells given to set_cell and reset_cell
EditCells == {0, 1, 7, 8, 31, 32, 56, 63}

\* diagonals and antidiagonals given to set_diagonal and set_antidiagonal:
\* the two of one cell, in the corners, and the one of eight cells
EditDiagonals == {0, 7, 14}

\* slices given to set_cells and reset_cells: empty, one cell, a cell twice,
\* A1 B1 H1
CellLists == { <<>>, <<32>>, <<63, 63>>, <<0, 1, 7>> }

\* a rank, a file, a diagonal, an antidiagonal, the cells of a slice, and
\* what is left of the full board without one of them
WholeBoards ==
    LET lines ==    { RANKS_BBS[r] : r \in Rank } \cup { FILES_BBS[f] : f \in File }
               \cup { DIAGS_BBS[d] : d \in EditDiagonals }
               \cup { ANTIDIAGS_BBS[d] : d \in EditDiagonals }
               \cup { from_cells(l) : l \in CellLists }
    IN  lines \cup { Cell \ l : l \in lines }

\* right-hand sides given to |=, &= and ^=, and written to the public field
\* state
RhsBoards ==
         { BitBoard_new, BitBoard_from(Cell) }
    \cup { from_cells(<<c>>) : c \in {A1, H8} }
    \cup { BitBoard_from(RANKS_BBS[Rank1]), BitBoard_from(Cell \ FILES_BBS[FileA]) }

BoardCall(op, c, val) == [op |-> op, c |-> c, val |-> val]

Followed(bb) ==
    \/ Cardinality(bb) <= MaxBoardCells
    \/ Cardinality(bb) >= NUM_CELLS - MaxBoardCells
    \/ bb \in WholeBoards

\* a call that changes the board to bb
Change(op, bb) ==
    /\ Followed(bb)
    /\ board' = bb
    /\ ret' = BoardCall(op, None, None)
    /\ UNCHANGED army

InitBoard ==
    /\ army = ChessArmy_new("White")
    /\ \/ board = BitBoard_new /\ ret = BoardCall("new", None, None)
       \/ \E c \in Cell : board = from_cells(<<c>>) /\ ret = BoardCall("from_cells", c, None)
       \/ board = BitBoard_from(Cell) /\ ret = BoardCall("from", None, None)

SetCell ==
    \E c \in EditCells :
        /\ Followed(set_cell(board, c))
        /\ board' = set_cell(board, c)
        /\ ret' = BoardCall("set_cell", c, None)
        /\ UNCHANGED army

ResetCell ==
    \E c \in EditCells :
        /\ Followed(reset_cell(board, c))
        /\ board' = reset_cell(board, c)
        /\ ret' = BoardCall("reset_cell", c, None)
        /\ UNCHANGED army

SetRank == \E r \in Rank : Change("set_rank", set_rank(board, r))

ResetRank == \E r \in Rank : Change("reset_rank", reset_rank(board, r))

SetFile == \E f \in File : Change("set_file", set_file(board, f))

ResetFile == \E f \in File : Change("reset_file", reset_file(board, f))

SetDiagonal == \E d \in EditDiagonals : Change("set_diagonal", set_diagonal(board, d))

SetAntidiagonal ==
    \E d \in EditDiagonals : Change("set_antidiagonal", set_antidiagonal(board, d))

SetCells == \E cells \in CellLists : Change("set_cells", set_cells(board, cells))

ResetCells == \E cells \in CellLists : Change("reset_cells", reset_cells(board, cells))

SetCellFromFileAndRank ==
    \E c \in EditCells :
        Change("set_cell_from_file_and_rank",
               set_cell_from_file_and_rank(board, file(c), rank(c)))

ResetCellFromFileAndRank ==
    \E c \in EditCells :
        Change("reset_cell_from_file_and_rank",
               reset_cell_from_file_and_rank(board, file(c), rank(c)))

Clear == Change("clear", clear(board))

BitOrAssign == \E rhs \in RhsBoards : Change("bitor_assign", bitor_assign(board, rhs))

BitAndAssign == \E rhs \in RhsBoards : Change("bitand_assign", bitand_assign(board, rhs))

BitXorAssign == \E rhs \in RhsBoards : Change("bitxor_assign", bitxor_assign(board, rhs))

\* bb.state = mask, the field being public
WriteState == \E mask \in RhsBoards : Change("state", mask)

ActiveCell ==
    /\ ret' = BoardCall("active_cell", None, active_cell(board))
    /\ UNCHANGED <<army, board>>

PopCount ==
    /\ ret' = BoardCall("pop_count", None, pop_count(board))
    /\ UNCHANGED <<army, board>>

IsEmpty ==
    /\ ret' = BoardCall("is_empty", None, is_empty(board))
    /\ UNCHANGED <<army, board>>

CellIsActive ==
    \E c \in EditCells :
        /\ ret' = BoardCall("cell_is_active", c, cell_is_active(board, c))
        /\ UNCHANGED <<army, board>>

NextBoard ==
    \/ SetCell
    \/ ResetCell
    \/ SetRank
    \/ ResetRank
    \/ SetFile
    \/ ResetFile
    \/ SetDiagonal
    \/ SetAntidiagonal
    \/ SetCells
    \/ ResetCells
    \/ SetCellFromFileAndRank
    \/ ResetCellFromFileAndRank
    \/ Clear
    \/ BitOrAssign
    \/ BitAndAssign
    \/ BitXorAssign
    \/ WriteState
    \/ ActiveCell
    \/ PopCount
    \/ IsEmpty
    \/ CellIsActive

\* one BitBoard
SpecBoard == InitBoard /\ [][NextBoard]_vars

\* ------------------------------------------------------------------------
\* The functions of bbdefines.rs on cells, called with any cell
\* ------------------------------------------------------------------------
\* the steps given to calc_cell_after_steps: -MaxStep .. MaxStep and the two
\* ends of i32
MaxStep == 8

Steps == (-MaxStep .. MaxStep) \cup {MinI32, MaxI32}

CellCall(op, c, step_north, step_east, checks, panic, val) ==
    [op |-> op, c |-> c, step_north |-> step_north, step_east |-> step_east,
     overflow_checks |-> checks, panic |-> panic, val |-> val]

\* a direction function applied to any cell; the functions are pure, so
\* every call is made from the start
Direction(op, c, val) ==
    /\ ret.op = "none"
    /\ ret' = CellCall(op, c, 0, 0, FALSE, FALSE, val)
    /\ UNCHANGED <<army, board>>

InitCells ==
    /\ army = ChessArmy_new("White")
    /\ board = BitBoard_new
    /\ ret = CellCall("none", None, 0, 0, FALSE, FALSE, None)

W == \E c \in Cell : Direction("w", c, w(c))

NW == \E c \in Cell : Direction("nw", c, nw(c))

N == \E c \in Cell : Direction("n", c, n(c))

NE == \E c \in Cell : Direction("ne", c, ne(c))

E == \E c \in Cell : Direction("e", c, e(c))

SE == \E c \in Cell : Direction("se", c, se(c))

S == \E c \in Cell : Direction("s", c, s(c))

SW == \E c \in Cell : Direction("sw", c, sw(c))

\* calc_cell_after_steps in a build with the overflow checks on (it panics
\* when an addition overflows) or off (the addition wraps)
CalcCellAfterSteps ==
    /\ ret.op = "none"
    /\ \E c \in Cell, step_north \in Steps, step_east \in Steps, checks \in BOOLEAN :
        /\ ret' = IF checks /\ calc_cell_after_steps_overflows(c, step_north, step_east)
                  THEN CellCall("calc_cell_after_steps", c, step_north, step_east,
                                checks, TRUE, None)
                  ELSE CellCall("calc_cell_after_steps", c, step_north, step_east,
                                checks, FALSE,
                                calc_cell_after_steps(c, step_north, step_east))
        /\ UNCHANGED <<army, board>>

NextCells ==
    \/ W
    \/ NW
    \/ N
    \/ NE
    \/ E
    \/ SE
    \/ S
    \/ SW
    \/ CalcCellAfterSteps

\* the functions on cells
SpecCells == InitCells /\ [][NextCells]_vars

\* ------------------------------------------------------------------------
\* bbdefines.rs: TryFrom<&str> for File, Rank and Cell.  A &str is the
\* sequence of the bytes of its UTF-8 encoding.
\* ------------------------------------------------------------------------
\* a byte 10xxxxxx continues a character, any other byte starts one
is_continuation_byte(b) == b \in 128 .. 191

\* value.chars().count()
chars_count(value) ==
    Cardinality({ i \in 1 .. Len(value) : ~is_continuation_byte(value[i]) })

\* str::is_char_boundary(i)
is_char_boundary(value, i) ==
    \/ i = 0
    \/ i = Len(value)
    \/ (i < Len(value) /\ ~is_continuation_byte(value[i + 1]))

\* &value[from..to]: panics when an index is beyond the end of the string or
\* inside a character
str_slice(value, from, to) ==
    IF /\ from <= to /\ to <= Len(value)
       /\ is_char_boundary(value, from) /\ is_char_boundary(value, to)
    THEN [panic |-> FALSE, str |-> SubSeq(value, from + 1, to)]
    ELSE [panic |-> TRUE, str |-> <<>>]

\* File::try_from(value): Ok(file) or Err(IllegalConversionToFile)
File_try_from(value) ==
    CASE value = <<97>>  -> [err |-> "None", val |-> 0]
      [] value = <<98>>  -> [err |-> "None", val |-> 1]
      [] value = <<99>>  -> [err |-> "None", val |-> 2]
      [] value = <<100>> -> [err |-> "None", val |-> 3]
      [] value = <<101>> -> [err |-> "None", val |-> 4]
      [] value = <<102>> -> [err |-> "None", val |-> 5]
      [] value = <<103>> -> [err |-> "None", val |-> 6]
      [] value = <<104>> -> [err |-> "None", val |-> 7]
      [] OTHER -> [err |-> "IllegalConversionToFile", val |-> None]

\* Rank::try_from(value): Ok(rank) or Err(IllegalConversionToRank)
Rank_try_from(value) ==
    CASE value = <<49>> -> [err |-> "None", val |-> 0]
      [] value = <<50>> -> [err |-> "None", val |-> 1]
      [] value = <<51>> -> [err |-> "None", val |-> 2]
      [] value = <<52>> -> [err |-> "None", val |-> 3]
      [] value = <<53>> -> [err |-> "None", val |-> 4]
      [] value = <<54>> -> [err |-> "None", val |-> 5]
      [] value = <<55>> -> [err |-> "None", val |-> 6]
      [] value = <<56>> -> [err |-> "None", val |-> 7]
      [] OTHER -> [err |-> "IllegalConversionToRank", val |-> None]

\* Cell::try_from(value): Ok(cell), Err(IllegalConversionToCell), or the
\* panic of one of the two slices
Cell_try_from(value) ==
    IF chars_count(value) # 2
    THEN [panic |-> FALSE, err |-> "IllegalConversionToCell", val |-> None]
    ELSE LET s1 == str_slice(value, 0, 1)
             s2 == str_slice(value, 1, 2)
         IN  IF s1.panic \/ s2.panic
             THEN [panic |-> TRUE, err |-> "None", val |-> None]
             ELSE LET f == File_try_from(s1.str)
                      r == Rank_try_from(s2.str)
                  IN  IF f.err = "None" /\ r.err = "None"
                      THEN [panic |-> FALSE, err |-> "None", val |-> to_cell(f.val, r.val)]
                      ELSE [panic |-> FALSE, err |-> "IllegalConversionToCell",
                            val |-> None]

\* the strings given to try_from hold at most MaxStrLen characters
MaxStrLen == 3

\* the characters a, h, i, A, 1, 8, 9, 0, e with acute accent (2 bytes) and
\* the euro sign (3 bytes), each as its UTF-8 bytes
Chars ==
    { <<97>>, <<104>>, <<105>>, <<65>>, <<49>>, <<56>>, <<57>>, <<48>>,
      <<195, 169>>, <<226, 130, 172>> }

\* the UTF-8 encoding of a sequence of characters
RECURSIVE utf8(_)
utf8(chars) ==
    IF chars = <<>> THEN <<>> ELSE Head(chars) \o utf8(Tail(chars))

Strings ==
    { utf8(chars) : chars \in UNION { [1 .. k -> Chars] : k \in 0 .. MaxStrLen } }

ParseCall(op, value, res) ==
    [op |-> op, value |-> value, panic |-> res.panic, err |-> res.err, val |-> res.val]

CellTryFrom ==
    /\ ret.op = "none"
    /\ \E value \in Strings :
          ret' = ParseCall("cell_try_from", value, Cell_try_from(value))
    /\ UNCHANGED <<army, board>>

\* File::try_from and Rank::try_from, which do not panic
FileTryFrom ==
    /\ ret.op = "none"
    /\ \E value \in Strings :
          ret' = ParseCall("file_try_from", value,
                           [panic |-> FALSE, err |-> File_try_from(value).err,
                            val |-> File_try_from(value).val])
    /\ UNCHANGED <<army, board>>

RankTryFrom ==
    /\ ret.op = "none"
    /\ \E value \in Strings :
          ret' = ParseCall("rank_try_from", value,
                           [panic |-> FALSE, err |-> Rank_try_from(value).err,
                            val |-> Rank_try_from(value).val])
    /\ UNCHANGED <<army, board>>

NextParse ==
    \/ CellTryFrom
    \/ FileTryFrom
    \/ RankTryFrom

\* the conversions from text
SpecParse == InitCells /\ [][NextParse]_vars

\* ------------------------------------------------------------------------
\* chessmove.rs: a move packed in a u32
\* ------------------------------------------------------------------------
TAKEN_PIECE_OFFSET == 3
PROMOTED_PIECE_OFFSET == 6
START_CELL_OFFSET == 12
DESTINATION_CELL_OFFSET == 18
EN_PASSANT_CELL_OFFSET == 24

PIECE_MASK == 7
VALID_CELL_MASK == 63
VALID_AND_INVALID_CELL_MASK == 127

INVALID_PIECE == 6
INVALID_CELL == 64

\* The u32 values of chessmove.rs have bit 31 clear (INVALID_CHESSMOVE, the
\* only one with bit 31, is used by no function): a u32 is the set of the
\* positions of its 1 bits, and the number is the sum of their weights.
u32_bits(a) == { i \in 0 .. 30 : (a \div (2 ^ i)) % 2 = 1 }

u32_of_bits(bits) == BagCardinality([i \in bits |-> 2 ^ i])

\* a | b, bit by bit
u32_or(a, b) == u32_of_bits(u32_bits(a) \cup u32_bits(b))

\* a & b, bit by bit
u32_and(a, b) == u32_of_bits(u32_bits(a) \cap u32_bits(b))

\* a << k, for the operands of chessmove.rs: a < 2^7 and k <= 24
u32_shl(a, k) == a * (2 ^ k)

\* a >> k
u32_shr(a, k) == a \div (2 ^ k)

\* ChessPiece as u32
piece_as_u32(cp) ==
    CASE cp = "King"   -> 0
      [] cp = "Queen"  -> 1
      [] cp = "Bishop" -> 2
      [] cp = "Knight" -> 3
      [] cp = "Rook"   -> 4
      [] cp = "Pawn"   -> 5

\* num::FromPrimitive::from_u32 for ChessPiece: Option<ChessPiece>
piece_from_u32(v) ==
    CASE v = 0 -> "King"
      [] v = 1 -> "Queen"
      [] v = 2 -> "Bishop"
      [] v = 3 -> "Knight"
      [] v = 4 -> "Rook"
      [] v = 5 -> "Pawn"
      [] OTHER -> "None"

\* en passant on every two-rank step up, whatever the rank of the start cell
compute_en_passant_from_any_rank(from, to) ==
    IF to = from + 16 THEN [panic |-> FALSE, cell |-> n(from)]
    ELSE IF to = from - 16 THEN [panic |-> FALSE, cell |-> s(from)]
    ELSE [panic |-> FALSE, cell |-> None]

\* compute_en_passant(from, to); the two from_u32(..).unwrap() panic on None
compute_en_passant(from, to) ==
    LET r == rank(from)
    IN  IF r = Rank2 /\ cell_from_i32(from + 16) = None
        THEN [panic |-> TRUE, cell |-> None]
        ELSE IF r = Rank2 /\ to = cell_from_i32(from + 16)
        THEN [panic |-> FALSE, cell |-> n(from)]
        ELSE IF r = Rank7 /\ cell_from_i32(from - 16) = None
        THEN [panic |-> TRUE, cell |-> None]
        ELSE IF r = Rank7 /\ to = cell_from_i32(from - 16)
        THEN [panic |-> FALSE, cell |-> s(from)]
        ELSE [panic |-> FALSE, cell |-> None]

\* ChessMove::new with the promoted piece one bit lower
ChessMove_new_promoted_low(moved_piece, start_cell, dest_cell, taken_piece, promoted_piece) ==
    LET m0 == piece_as_u32(moved_piece)
        m1 == u32_or(m0, u32_shl(IF taken_piece # "None" THEN piece_as_u32(taken_piece)
                                 ELSE INVALID_PIECE, TAKEN_PIECE_OFFSET))
        m2 == u32_or(m1, u32_shl(IF promoted_piece # "None" THEN piece_as_u32(promoted_piece)
                                 ELSE INVALID_PIECE, PROMOTED_PIECE_OFFSET - 1))
        m3 == u32_or(m2, u32_shl(start_cell, START_CELL_OFFSET))
        m4 == u32_or(m3, u32_shl(dest_cell, DESTINATION_CELL_OFFSET))
    IN  [panic |-> FALSE, m |-> u32_or(m4, u32_shl(INVALID_CELL, EN_PASSANT_CELL_OFFSET))]

\* ChessMove::new: the u32 of the move, or the panic of compute_en_passant
ChessMove_new(moved_piece, start_cell, dest_cell, taken_piece, promoted_piece) ==
    LET m0 == piece_as_u32(moved_piece)
        m1 == IF taken_piece # "None"
              THEN u32_or(m0, u32_shl(u32_and(piece_as_u32(taken_piece), PIECE_MASK),
                                      TAKEN_PIECE_OFFSET))
              ELSE u32_or(m0, u32_shl(INVALID_PIECE, TAKEN_PIECE_OFFSET))
        m2 == IF promoted_piece # "None"
              THEN u32_or(m1, u32_shl(u32_and(piece_as_u32(promoted_piece), PIECE_MASK),
                                      PROMOTED_PIECE_OFFSET))
              ELSE u32_or(m1, u32_shl(INVALID_PIECE, PROMOTED_PIECE_OFFSET))
        m3 == u32_or(m2, u32_shl(u32_and(start_cell, VALID_CELL_MASK), START_CELL_OFFSET))
        m4 == u32_or(m3, u32_shl(u32_and(dest_cell, VALID_CELL_MASK),
                                 DESTINATION_CELL_OFFSET))
        ep == compute_en_passant(start_cell, dest_cell)
    IN  IF moved_piece = "Pawn"
        THEN IF ep.panic THEN [panic |-> TRUE, m |-> 0]
             ELSE IF ep.cell # None
             THEN [panic |-> FALSE,
                   m |-> u32_or(m4, u32_shl(u32_and(ep.cell, VALID_CELL_MASK),
                                            EN_PASSANT_CELL_OFFSET))]
             ELSE [panic |-> FALSE,
                   m |-> u32_or(m4, u32_shl(INVALID_CELL, EN_PASSANT_CELL_OFFSET))]
        ELSE [panic |-> FALSE,
              m |-> u32_or(m4, u32_shl(INVALID_CELL, EN_PASSANT_CELL_OFFSET))]

\* from_u32(..).unwrap() of a piece
moved_piece(m) ==
    LET p == piece_from_u32(u32_and(m, PIECE_MASK))
    IN  [panic |-> p = "None", val |-> p]

\* from_u32(..).unwrap() of a cell
start_cell(m) ==
    LET c == cell_from_i32(u32_and(u32_shr(m, START_CELL_OFFSET), VALID_CELL_MASK))
    IN  [panic |-> c = None, val |-> c]

destination_cell(m) ==
    LET c == cell_from_i32(u32_and(u32_shr(m, DESTINATION_CELL_OFFSET), VALID_CELL_MASK))
    IN  [panic |-> c = None, val |-> c]

taken_piece(m) ==
    [panic |-> FALSE,
     val |-> piece_from_u32(u32_and(u32_shr(m, TAKEN_PIECE_OFFSET), PIECE_MASK))]

promoted_piece(m) ==
    [panic |-> FALSE,
     val |-> piece_from_u32(u32_and(u32_shr(m, PROMOTED_PIECE_OFFSET), PIECE_MASK))]

en_passant_cell(m) ==
    [panic |-> FALSE,
     val |-> cell_from_i32(u32_and(u32_shr(m, EN_PASSANT_CELL_OFFSET),
                                   VALID_AND_INVALID_CELL_MASK))]

\* A1, E2, E4, H8: start and destination cells of the moves that take or
\* promote
MoveCells == {0, 12, 28, 63}

\* Option<ChessPiece>
OptionChessPiece == ChessPiece \cup {"None"}

MoveCall(op, moved, start, dest, taken, promoted, m, res) ==
    [op |-> op, moved |-> moved, start |-> start, dest |-> dest, taken |-> taken,
     promoted |-> promoted, m |-> m, panic |-> res.panic, val |-> res.val]

NewMoveOf(moved, start, dest, taken, promoted) ==
    LET res == ChessMove_new(moved, start, dest, taken, promoted)
    IN  ret' = MoveCall("chess_move_new", moved, start, dest, taken, promoted, res.m,
                        [panic |-> res.panic, val |-> None])

\* ChessMove::new(moved, start, dest, None, None), for any two cells
NewQuietMove ==
    /\ ret.op = "none"
    /\ \E moved \in ChessPiece, start \in Cell, dest \in Cell :
          NewMoveOf(moved, start, dest, "None", "None")
    /\ UNCHANGED <<army, board>>

\* ChessMove::new with any taken and promoted piece
NewMove ==
    /\ ret.op = "none"
    /\ \E moved \in ChessPiece, start \in MoveCells, dest \in MoveCells,
          taken \in OptionChessPiece, promoted \in OptionChessPiece :
          NewMoveOf(moved, start, dest, taken, promoted)
    /\ UNCHANGED <<army, board>>

\* an accessor called on the move that was built
Accessor(op, res) ==
    /\ ret.op = "chess_move_new"
    /\ ~ret.panic
    /\ ret' = [ret EXCEPT !.op = op, !.panic = res.panic, !.val = res.val]
    /\ UNCHANGED <<army, board>>

MovedPiece == Accessor("moved_piece", moved_piece(ret.m))

StartCell == Accessor("start_cell", start_cell(ret.m))

DestinationCell == Accessor("destination_cell", destination_cell(ret.m))

TakenPiece == Accessor("taken_piece", taken_piece(ret.m))

PromotedPiece == Accessor("promoted_piece", promoted_piece(ret.m))

EnPassantCell == Accessor("en_passant_cell", en_passant_cell(ret.m))

NextMove ==
    \/ NewQuietMove
    \/ NewMove
    \/ MovedPiece
    \/ StartCell
    \/ DestinationCell
    \/ TakenPiece
    \/ PromotedPiece
    \/ EnPassantCell

\* a ChessMove and its accessors
SpecChessMove == InitCells /\ [][NextMove]_vars

\* ------------------------------------------------------------------------
\* Reference definitions used to state the properties
\* ------------------------------------------------------------------------
\* the six piece sets of the army are pairwise disjoint
Disjoint(a) ==
    \A p1, p2 \in ChessPiece :
        p1 # p2 => a.pieces_bmask[p1] \cap a.pieces_bmask[p2] = {}

\* cell c holds a piece of type cp and no piece of another type
HoldsOnly(a, cp, c) ==
    /\ c \in a.pieces_bmask[cp]
    /\ \A p \in ChessPiece \ {cp} : c \notin a.pieces_bmask[p]

OnBoard(x, y) == x \in 0 .. 7 /\ y \in 0 .. 7

OrthDirs == { <<-1, 0>>, <<1, 0>>, <<0, -1>>, <<0, 1>> }

DiagDirs == { <<-1, -1>>, <<1, 1>>, <<-1, 1>>, <<1, -1>> }

\* The ray from cell p in direction d = <<dx, dy>>: the cell k steps away
\* belongs to it iff it is on the board and no cell less than k steps away
\* is busy.  So the ray ends with the first busy cell, or at the edge.
RayRef(p, d, busy) ==
    { 8 * ((p \div 8) + k * d[2]) + (p % 8) + k * d[1] :
        k \in { k \in 1 .. 7 :
                  /\ OnBoard((p % 8) + k * d[1], (p \div 8) + k * d[2])
                  /\ \A j \in 1 .. (k - 1) :
                        8 * ((p \div 8) + j * d[2]) + (p % 8) + j * d[1] \notin busy } }

RaysRef(p, dirs, busy) == UNION { RayRef(p, d, busy) : d \in dirs }

\* the cells a knight's jump away from p
KnightRef(p) ==
    { c \in Cell :
        LET dx == (c % 8) - (p % 8)
            dy == (c \div 8) - (p \div 8)
        IN  dx * dx + dy * dy = 5 }

IsControlQuery(cp) == ret.op = "controlled_cells_by_piece_type" /\ ret.cp = cp

IsMovesQuery(cp) == ret.op = "possible_moves_for_piece_in_cell" /\ ret.cp = cp

Busy == occupied_cells(army) \cup ret.intf

\* ------------------------------------------------------------------------
\* Properties
\* ------------------------------------------------------------------------
\* C1: with pairwise disjoint piece sets, queens_controlled_cells(intf),
\* computed through the fake army, is the union over the queen cells of the
\* eight rays cast from the cell, each ending with the first cell of
\* occupied_cells() | intf.
C1_QueensAreEightRays ==
    (IsControlQuery("Queen") /\ Disjoint(army)) =>
        /\ ~ret.panic
        /\ ret.bb = UNION { RaysRef(q, OrthDirs \cup DiagDirs, Busy) :
                              q \in get_pieces(army, "Queen") }

\* a queen whose rays end on a friendly bishop or rook, or on an
\* interference cell, before the edge of the board
C1_Witness ==
    /\ IsControlQuery("Queen") /\ Disjoint(army) /\ ~ret.panic
    /\ get_pieces(army, "Queen") # {}
    /\ ret.bb \cap (get_pieces(army, "Bishop") \cup get_pieces(army, "Rook")) # {}
    /\ ret.bb \cap ret.intf # {}

\* C5: with pairwise disjoint piece sets, rooks_controlled_cells(intf) is the
\* union over the rook cells of the four orthogonal rays, each holding the
\* cells up to and including the first cell of occupied_cells() | intf and
\* none beyond; a White rook on B2 with a friendly pawn on G3 moves to
\* file B xor rank 2.
C5_RooksAreFourRays ==
    /\ (IsControlQuery("Rook") /\ Disjoint(army)) =>
          /\ ~ret.panic
          /\ ret.bb = UNION { RaysRef(r, OrthDirs, Busy) : r \in get_pieces(army, "Rook") }
    /\ ret.op = "new" =>
          LET a == place_pieces(place_pieces(ChessArmy_new("White"), "Rook", <<9>>),
                                "Pawn", <<22>>)
          IN  possible_moves_for_piece_in_cell(a, "Rook", 9, {})
                = Ok(BitXor(FILES_BBS[1], RANKS_BBS[1]))

\* a rook with a ray that ends on a busy cell before the edge
C5_Witness ==
    /\ IsControlQuery("Rook") /\ Disjoint(army) /\ ~ret.panic
    /\ Cardinality(get_pieces(army, "Rook")) = 1
    /\ ret.bb \cap occupied_cells(army) # {}
    /\ ret.bb \cap ret.intf # {}
    /\ Cardinality(ret.bb) < 14

\* C6: with pairwise disjoint piece sets, bishops_controlled_cells(intf) is
\* the union over the bishop cells of the four diagonal rays, each holding
\* the cells up to and including the first cell of occupied_cells() | intf,
\* none beyond it and none reached by wrapping around an edge.
C6_BishopsAreFourRays ==
    (IsControlQuery("Bishop") /\ Disjoint(army)) =>
        /\ ~ret.panic
        /\ ret.bb = UNION { RaysRef(b, DiagDirs, Busy) : b \in get_pieces(army, "Bishop") }

\* a bishop next to an edge with a ray that ends on a busy cell
C6_Witness ==
    /\ IsControlQuery("Bishop") /\ Disjoint(army) /\ ~ret.panic
    /\ \E b \in get_pieces(army, "Bishop") :
          /\ b % 8 = 1
          /\ \E x \in Busy \cap ret.bb : \E k \in 1 .. 5 :
                /\ x = b + 9 * k
                /\ x + 9 \in Cell /\ (x + 9) % 8 > x % 8
                /\ (x + 9) \notin ret.bb

\* C2: for cp in {Queen, Bishop, Knight, Rook, Pawn}, whatever the army,
\* possible_moves_for_piece_in_cell(cp, c, intf) is empty when the army holds
\* no piece of type cp on c.
C2_NoPieceNoMoves ==
    (/\ ret.op = "possible_moves_for_piece_in_cell"
     /\ ret.cp \in {"Queen", "Bishop", "Knight", "Rook", "Pawn"}
     /\ ret.c \notin get_pieces(army, ret.cp)) =>
        (~ret.panic /\ ret.bb = BitBoard_new)

\* the army holds a piece of the type asked for, but elsewhere, and cell c
\* holds a piece of another type
C2_Witness ==
    /\ ret.op = "possible_moves_for_piece_in_cell"
    /\ ret.cp \in {"Queen", "Bishop", "Knight", "Rook", "Pawn"}
    /\ get_pieces(army, ret.cp) # {}
    /\ ret.c \notin get_pieces(army, ret.cp)
    /\ ret.c \in occupied_cells(army)
    /\ ret.bb = {}

\* C3 as claimed: possible_moves_for_piece_in_cell(King, c, intf), when it
\* returns, is empty when the king is not on c.
C3_NoKingInCellNoMoves ==
    (/\ IsMovesQuery("King")
     /\ ~ret.panic
     /\ ret.c \notin get_pieces(army, "King")) =>
        ret.bb = BitBoard_new

\* C4 as claimed: controlled_cells and possible_moves_for_piece_in_cell never
\* panic, whatever place_pieces calls built the army.
C4_NeverPanics ==
    ret.op \in {"controlled_cells", "possible_moves_for_piece_in_cell"} => ~ret.panic

\* the cells attacked by a single piece of type cp on cell c
AttackRef(cp, c, busy) ==
    CASE cp = "Queen"  -> RaysRef(c, OrthDirs \cup DiagDirs, busy)
      [] cp = "Bishop" -> RaysRef(c, DiagDirs, busy)
      [] cp = "Rook"   -> RaysRef(c, OrthDirs, busy)
      [] cp = "Knight" -> KnightRef(c)

\* C7: for cp in {Queen, Bishop, Knight, Rook}, pairwise disjoint piece sets
\* and a cp piece on c, possible_moves_for_piece_in_cell(cp, c, intf) is the
\* attack set of that one piece minus occupied_cells(); the other pieces of
\* its type only block.
C7_MovesOfOnePiece ==
    (/\ ret.op = "possible_moves_for_piece_in_cell"
     /\ ret.cp \in {"Queen", "Bishop", "Knight", "Rook"}
     /\ Disjoint(army)
     /\ ret.c \in get_pieces(army, ret.cp)) =>
        /\ ~ret.panic
        /\ ret.bb = AttackRef(ret.cp, ret.c, Busy) \ occupied_cells(army)

\* two pieces of the type asked for: the other one is attacked by the piece
\* on c and attacks a free cell that is no move of the piece on c
C7_Witness ==
    /\ ret.op = "possible_moves_for_piece_in_cell"
    /\ ret.cp \in {"Queen", "Bishop", "Knight", "Rook"}
    /\ Disjoint(army)
    /\ ret.c \in get_pieces(army, ret.cp)
    /\ ret.bb # {}
    /\ \E o \in get_pieces(army, ret.cp) \ {ret.c} :
          /\ o \in AttackRef(ret.cp, ret.c, Busy)
          /\ (AttackRef(ret.cp, o, Busy) \ occupied_cells(army)) \ ret.bb # {}

\* +1 for White (towards rank 8), -1 for Black (towards rank 1)
ForwardRef == IF army.colour = "White" THEN 1 ELSE -1

\* the rank index the pawns of the army start from: rank 2 or rank 7
StartRankRef == IF army.colour = "White" THEN 1 ELSE 6

\* the cell k steps forward of c, on the file of c
AheadRef(c, k) == 8 * ((c \div 8) + k * ForwardRef) + (c % 8)

\* the pushes of a pawn on c: one step if that cell is on the board and not
\* busy, two steps from the start rank if neither cell is busy
PushRef(c, busy) ==
    (IF (c \div 8) + ForwardRef \in 0 .. 7 /\ AheadRef(c, 1) \notin busy
     THEN {AheadRef(c, 1)} ELSE {})
    \cup
    (IF /\ c \div 8 = StartRankRef
        /\ AheadRef(c, 1) \notin busy
        /\ AheadRef(c, 2) \notin busy
     THEN {AheadRef(c, 2)} ELSE {})

\* C8 as claimed: for an army holding a pawn on c, whatever else it holds on
\* c, the moves on the file of c are the cell one step forward iff it exists
\* and is not in occupied_cells() | intf, and the cell two steps forward iff
\* c is on the start rank and neither cell is in occupied_cells() | intf.
C8_PushesOfAnyPawn ==
    (IsMovesQuery("Pawn") /\ ret.c \in get_pieces(army, "Pawn")) =>
        /\ ~ret.panic
        /\ { x \in ret.bb : x % 8 = ret.c % 8 } = PushRef(ret.c, Busy)

\* C8: for an army holding on c a pawn and no piece of another type, the
\* moves on the file of c are the cell one step forward iff it exists and is
\* not in occupied_cells() | intf, and the cell two steps forward iff c is
\* on the start rank and neither cell is in occupied_cells() | intf; for an
\* army holding on c a pawn and a piece of another type there is no move.
C8_PawnPushes ==
    /\ (IsMovesQuery("Pawn") /\ HoldsOnly(army, "Pawn", ret.c)) =>
          /\ ~ret.panic
          /\ { x \in ret.bb : x % 8 = ret.c % 8 } = PushRef(ret.c, Busy)
    /\ (/\ IsMovesQuery("Pawn")
        /\ ret.c \in get_pieces(army, "Pawn")
        /\ ~HoldsOnly(army, "Pawn", ret.c)) =>
          ~ret.panic /\ ret.bb = {}

\* a Black pawn on its start rank whose first step is taken by a piece of
\* the interference board and whose second step is free: it does not jump
C8_Witness ==
    /\ IsMovesQuery("Pawn") /\ HoldsOnly(army, "Pawn", ret.c)
    /\ army.colour = "Black"
    /\ ret.c \div 8 = StartRankRef
    /\ AheadRef(ret.c, 1) \in ret.intf
    /\ AheadRef(ret.c, 2) \notin Busy
    /\ { x \in ret.bb : x % 8 = ret.c % 8 } = {}

\* the diagonal-forward neighbours of c that are on the board
CaptureRef(c) ==
    { 8 * ((c \div 8) + ForwardRef) + x :
        x \in { x \in {(c % 8) - 1, (c % 8) + 1} :
                  OnBoard(x, (c \div 8) + ForwardRef) } }

\* C9 as claimed: for an army holding a pawn on c, whatever else it holds on
\* c, the moves off the file of c are the diagonal-forward neighbours of c
\* that are in intf.
C9_CapturesOfAnyPawn ==
    (IsMovesQuery("Pawn") /\ ret.c \in get_pieces(army, "Pawn")) =>
        /\ ~ret.panic
        /\ { x \in ret.bb : x % 8 # ret.c % 8 } = CaptureRef(ret.c) \cap ret.intf

\* C9: for an army holding on c a pawn and no piece of another type, the
\* moves off the file of c are the diagonal-forward neighbours of c that are
\* in intf: none with an empty interference board, and all of them when the
\* push is blocked; for an army holding on c a pawn and a piece of another
\* type no diagonal-forward neighbour is a move.
C9_PawnCaptures ==
    /\ (IsMovesQuery("Pawn") /\ HoldsOnly(army, "Pawn", ret.c)) =>
          /\ ~ret.panic
          /\ { x \in ret.bb : x % 8 # ret.c % 8 } = CaptureRef(ret.c) \cap ret.intf
    /\ (/\ IsMovesQuery("Pawn")
        /\ ret.c \in get_pieces(army, "Pawn")
        /\ ~HoldsOnly(army, "Pawn", ret.c)) =>
          ret.bb \cap CaptureRef(ret.c) = {}

\* a Black pawn whose push is blocked and that captures to the south-east
C9_Witness ==
    /\ IsMovesQuery("Pawn") /\ HoldsOnly(army, "Pawn", ret.c)
    /\ army.colour = "Black"
    /\ AheadRef(ret.c, 1) \in Busy
    /\ ret.c - 7 \in ret.intf
    /\ ret.c - 7 \in ret.bb
    /\ ret.bb = CaptureRef(ret.c) \cap ret.intf

\* C10 as claimed: pawns_controlled_cells() is the union of
\* pawn_controlled_cells(cell, colour) over all the 64 cells holding a pawn.
C10_AllCellsCounted ==
    (IsControlQuery("Pawn") /\ Disjoint(army)) =>
        ret.bb = UNION { pawn_controlled_cells(c, army.colour) :
                           c \in get_pieces(army, "Pawn") }

\* C10 amended: pawns_controlled_cells() is the union of
\* pawn_controlled_cells(cell, colour) over the cells of ranks 2 to 7
\* (A2 .. H7) holding a pawn; pawns on rank 1 and rank 8 are not scanned.
C10_Ranks2To7Counted ==
    (IsControlQuery("Pawn") /\ Disjoint(army)) =>
        /\ ~ret.panic
        /\ ret.bb = UNION { pawn_controlled_cells(c, army.colour) :
                              c \in { p \in get_pieces(army, "Pawn") : p \div 8 \in 1 .. 6 } }

\* two pawns, one of them on rank 1, and only the other one is counted
C10_Witness ==
    /\ IsControlQuery("Pawn") /\ Disjoint(army) /\ ~ret.panic
    /\ \E p \in get_pieces(army, "Pawn") : p \div 8 = 0
    /\ \E p \in get_pieces(army, "Pawn") : p \div 8 \in 1 .. 6
    /\ ret.bb # {}

\* the cells whose file and rank differ from those of k by at most 1, but k
NeighbourRef(k) ==
    { c \in Cell : /\ c # k
                   /\ (c % 8) - (k % 8) \in -1 .. 1
                   /\ (c \div 8) - (k \div 8) \in -1 .. 1 }

\* the number of coordinates of k that lie on an edge of the board
EdgesRef(k) ==
    (IF k % 8 \in {0, 7} THEN 1 ELSE 0) + (IF k \div 8 \in {0, 7} THEN 1 ELSE 0)

\* C11: for an army with exactly one king, on any cell k,
\* king_controlled_cells() is the set of the cells whose file and rank differ
\* from those of k by at most 1, but k: 3 cells in a corner, 5 on an edge, 8
\* elsewhere, none across the A/H files; a lone White king on E6 controls
\* D5 E5 F5 D6 F6 D7 E7 F7.
C11_KingNeighbours ==
    /\ (IsControlQuery("King") /\ Cardinality(get_pieces(army, "King")) = 1) =>
          \A k \in get_pieces(army, "King") :
              /\ ~ret.panic
              /\ ret.bb = NeighbourRef(k)
              /\ Cardinality(ret.bb) = (CASE EdgesRef(k) = 2 -> 3
                                          [] EdgesRef(k) = 1 -> 5
                                          [] OTHER -> 8)
    /\ ret.op = "new" =>
          controlled_cells_by_piece_type(
              place_pieces(ChessArmy_new("White"), "King", <<44>>), "King", {})
            = Ok({35, 36, 37, 43, 45, 51, 52, 53})

\* a king on H1, with another piece in the army
C11_Witness ==
    /\ IsControlQuery("King")
    /\ get_pieces(army, "King") = {7}
    /\ num_pieces(army) = 2
    /\ Cardinality(ret.bb) = 3

\* C12: with pairwise disjoint piece sets, knights_controlled_cells() is the
\* union over the knight cells of the cells at the eight offsets (+-1, +-2),
\* (+-2, +-1) that are on the board; a knight on A1 controls B3 and C2 only.
C12_KnightJumps ==
    /\ (IsControlQuery("Knight") /\ Disjoint(army)) =>
          /\ ~ret.panic
          /\ ret.bb = UNION { KnightRef(k) : k \in get_pieces(army, "Knight") }
    /\ ret.op = "new" =>
          controlled_cells_by_piece_type(
              place_pieces(ChessArmy_new("White"), "Knight", <<A1>>), "Knight", {})
            = Ok({17, 10})

\* two knights, one of them in the corner H8
C12_Witness ==
    /\ IsControlQuery("Knight") /\ Disjoint(army) /\ ~ret.panic
    /\ Cardinality(get_pieces(army, "Knight")) = 2
    /\ 63 \in get_pieces(army, "Knight")
    /\ Cardinality(ret.bb) > 2

\* C13: for an army with exactly one king, the moves of the king are
\* king_controlled_cells() minus occupied_cells(), whatever the interference
\* board: a neighbour in the interference board is a move, a neighbour held
\* by the army is not.
C13_KingMoves ==
    (IsMovesQuery("King") /\ Cardinality(get_pieces(army, "King")) = 1) =>
        \A k \in get_pieces(army, "King") :
            /\ ~ret.panic
            /\ ret.bb = NeighbourRef(k) \ occupied_cells(army)

\* a king with a neighbour in the interference board and a neighbour held by
\* its army
C13_Witness ==
    /\ IsMovesQuery("King") /\ ~ret.panic
    /\ \E k \in get_pieces(army, "King") :
          /\ get_pieces(army, "King") = {k}
          /\ NeighbourRef(k) \cap ret.intf # {}
          /\ ret.intf \cap NeighbourRef(k) \subseteq ret.bb
          /\ NeighbourRef(k) \cap occupied_cells(army) # {}

\* the standard deployment of an army
InitialRef(colour) ==
    IF colour = "White"
    THEN [cp \in ChessPiece |->
            CASE cp = "King"   -> {4}
              [] cp = "Queen"  -> {3}
              [] cp = "Bishop" -> {2, 5}
              [] cp = "Knight" -> {1, 6}
              [] cp = "Rook"   -> {0, 7}
              [] cp = "Pawn"   -> 8 .. 15]
    ELSE [cp \in ChessPiece |->
            CASE cp = "King"   -> {60}
              [] cp = "Queen"  -> {59}
              [] cp = "Bishop" -> {58, 61}
              [] cp = "Knight" -> {57, 62}
              [] cp = "Rook"   -> {56, 63}
              [] cp = "Pawn"   -> 48 .. 55]

\* C14: ChessArmy::initial(colour) is the standard deployment: the White
\* pieces on rank 1 and pawns on rank 2 (occupied cells 0 .. 15), the Black
\* pieces on rank 8 and pawns on rank 7 (occupied cells 48 .. 63), 16 pieces,
\* one king, pairwise disjoint piece sets.
C14_InitialDeployment ==
    ret.op = "initial" =>
        /\ army.pieces_bmask = InitialRef(army.colour)
        /\ occupied_cells(army) = (IF army.colour = "White" THEN 0 .. 15 ELSE 48 .. 63)
        /\ num_pieces(army) = 16
        /\ Cardinality(get_pieces(army, "King")) = 1
        /\ Disjoint(army)

\* a Black army built by initial()
C14_Witness ==
    /\ ret.op = "initial"
    /\ army.colour = "Black"
    /\ 52 \in get_pieces(army, "Pawn")

\* C15: from new(colour), where every bitboard is empty, a call
\* place_pieces(cp, cells) adds the cells of the call to the bitboard of the
\* cp of the call and leaves the other five bitboards and the colour as they
\* are, so that every bitboard is the union of the cells placed for its
\* type; placing twice is placing once, and two calls commute.
C15_PlaceOnlyAdds ==
    /\ [](ret.op = "new" => \A p \in ChessPiece : army.pieces_bmask[p] = {})
    /\ [][ret'.op = "place_pieces" =>
            /\ army'.pieces_bmask[ret'.cp] =
                  army.pieces_bmask[ret'.cp] \cup { ret'.cells[i] : i \in DOMAIN ret'.cells }
            /\ \A p \in ChessPiece \ {ret'.cp} :
                  army'.pieces_bmask[p] = army.pieces_bmask[p]
            /\ army'.colour = army.colour]_vars
    /\ [](ret.op = "place_pieces" =>
            /\ place_pieces(army, ret.cp, ret.cells) = army
            /\ place_pieces(army, ret.cp, ret.cells \o ret.cells) = army
            /\ \A cp1 \in ChessPiece, c1 \in PlaceCells :
                  /\ place_pieces(place_pieces(army, cp1, <<c1>>), cp1, <<c1>>)
                        = place_pieces(army, cp1, <<c1>>)
                  /\ place_pieces(army, cp1, <<c1, c1>>) = place_pieces(army, cp1, <<c1>>)
                  /\ \A cp2 \in ChessPiece, c2 \in PlaceCells :
                        place_pieces(place_pieces(army, cp1, <<c1>>), cp2, <<c2>>)
                          = place_pieces(place_pieces(army, cp2, <<c2>>), cp1, <<c1>>)
                  /\ place_pieces(place_pieces(army, cp1, <<c1>>), ret.cp, ret.cells)
                        = place_pieces(army, cp1, <<c1>>))

\* a call that places two cells at once
C15_Witness ==
    /\ ret.op = "place_pieces"
    /\ Len(ret.cells) = 2
    /\ ret.cells[1] # ret.cells[2]
    /\ army.pieces_bmask[ret.cp] = {ret.cells[1], ret.cells[2]}

\* C16: active_cell() is Some(c) iff c is the one active cell of the board;
\* it is None for a board with no active cell and for a board with two or
\* more, never the first active cell.
C16_ActiveCellOfSingletons ==
    ret.op = "active_cell" =>
        /\ \A c \in Cell : (ret.val = c) <=> (board = {c})
        /\ (Cardinality(board) # 1) <=> (ret.val = None)

\* a board with two active cells
C16_Witness ==
    /\ ret.op = "active_cell"
    /\ Cardinality(board) = 2
    /\ ret.val = None

\* C17: the loop of pop_count() ends and returns the number of active cells,
\* so that pop_count() = 0 iff is_empty().
C17_PopCountIsCardinality ==
    /\ ret.op = "pop_count" =>
          /\ ret.val = Cardinality(board)
          /\ (ret.val = 0) <=> is_empty(board)
    /\ ret.op = "is_empty" => (ret.val <=> (pop_count(board) = 0))

\* a board with all the 64 cells active but one
C17_Witness ==
    /\ ret.op = "pop_count"
    /\ ret.val = 63
    /\ 63 \notin board

\* C18: set_cell(c) and reset_cell(c) are idempotent and change bit c only;
\* cell c is active after set_cell(c) and not active after reset_cell(c);
\* reset_cell(c) after set_cell(c) gives back a board where c was not active.
C18_SetAndResetOneBit ==
    /\ ret.op = "set_cell" =>
          cell_is_active(board, ret.c) /\ set_cell(board, ret.c) = board
    /\ ret.op = "reset_cell" =>
          ~cell_is_active(board, ret.c) /\ reset_cell(board, ret.c) = board
    /\ ret.op \in {"new", "from_cells", "from", "set_cell", "reset_cell"} =>
          \A c \in Cell :
              /\ set_cell(board, c) \ {c} = board \ {c}
              /\ reset_cell(board, c) \ {c} = board \ {c}
              /\ c \in set_cell(board, c)
              /\ c \notin reset_cell(board, c)
              /\ set_cell(set_cell(board, c), c) = set_cell(board, c)
              /\ reset_cell(reset_cell(board, c), c) = reset_cell(board, c)
              /\ c \notin board => reset_cell(set_cell(board, c), c) = board

\* reset_cell(H8) on a board that keeps another active cell
C18_Witness ==
    /\ ret.op = "reset_cell"
    /\ ret.c = 63
    /\ board # {}
    /\ 63 \notin board

\* the (df, dr) of the eight direction functions
DirOffsetRef(op) ==
    CASE op = "w"  -> <<-1, 0>>
      [] op = "nw" -> <<-1, 1>>
      [] op = "n"  -> <<0, 1>>
      [] op = "ne" -> <<1, 1>>
      [] op = "e"  -> <<1, 0>>
      [] op = "se" -> <<1, -1>>
      [] op = "s"  -> <<0, -1>>
      [] op = "sw" -> <<-1, -1>>

\* the cell at (f + df, r + dr) of cell c, or None when it is off the board
OffsetRef(c, df, dr) ==
    IF OnBoard((c % 8) + df, (c \div 8) + dr)
    THEN 8 * ((c \div 8) + dr) + (c % 8) + df
    ELSE None

\* C19: each of n, s, e, w, ne, nw, se, sw returns the cell at (f + df,
\* r + dr) iff both coordinates are in 0 .. 7 and None otherwise: no
\* direction returns a cell of the opposite side of the board.
C19_DirectionsStayOnBoard ==
    ret.op \in {"w", "nw", "n", "ne", "e", "se", "s", "sw"} =>
        /\ ~ret.panic
        /\ ret.val = OffsetRef(ret.c, DirOffsetRef(ret.op)[1], DirOffsetRef(ret.op)[2])

\* a diagonal function on rank 1, off the file it tests
C19_Witness ==
    /\ ret.op = "sw"
    /\ ret.c = 7
    /\ ret.val = None

\* C20 as claimed: calc_cell_after_steps(c, step_north, step_east) returns
\* the cell at (f + step_east, r + step_north) iff both coordinates are in
\* 0 .. 7 and None otherwise, for every cell and all signed steps.
C20_StepsStayOnBoard ==
    ret.op = "calc_cell_after_steps" =>
        /\ ~ret.panic
        /\ ret.val =
             (IF /\ ret.step_north \in -7 .. 7 /\ ret.step_east \in -7 .. 7
                 /\ OnBoard((ret.c % 8) + ret.step_east, (ret.c \div 8) + ret.step_north)
              THEN 8 * ((ret.c \div 8) + ret.step_north) + (ret.c % 8) + ret.step_east
              ELSE None)

\* C21 as claimed: Cell::try_from(s) is Ok(to_cell(f, r)) when s is a file
\* letter a .. h followed by a rank digit 1 .. 8, and
\* Err(IllegalConversionToCell) for every other string; it never panics.
C21_TryFromNeverPanics ==
    ret.op = "cell_try_from" =>
        /\ ~ret.panic
        /\ IF /\ Len(ret.value) = 2
              /\ ret.value[1] \in 97 .. 104
              /\ ret.value[2] \in 49 .. 56
           THEN ret.err = "None"
                /\ ret.val = 8 * (ret.value[2] - 49) + (ret.value[1] - 97)
           ELSE ret.err = "IllegalConversionToCell" /\ ret.val = None

\* pawn_controlled_cells(c, ac) for any cell and colour
PawnControlledCell ==
    /\ ret.op = "none"
    /\ \E c \in Cell, ac \in ArmyColour :
          ret' = [op |-> "pawn_controlled_cells", c |-> c, ac |-> ac,
                  bb |-> pawn_controlled_cells(c, ac)]
    /\ UNCHANGED <<army, board>>

NextPawnCell == PawnControlledCell

\* the cells controlled by one pawn
SpecPawnCell == InitCells /\ [][NextPawnCell]_vars

\* a mask function applied to any cell
Mask(op, c, ndx, bb) ==
    ret' = [op |-> op, c |-> c, ndx |-> ndx, bb |-> bb]

FileMask ==
    /\ ret.op = "none"
    /\ \E c \in Cell : Mask("file_mask", c, file(c), file_mask(c))
    /\ UNCHANGED <<army, board>>

RankMask ==
    /\ ret.op = "none"
    /\ \E c \in Cell : Mask("rank_mask", c, rank(c), rank_mask(c))
    /\ UNCHANGED <<army, board>>

DiagMask ==
    /\ ret.op = "none"
    /\ \E c \in Cell : Mask("diag_mask", c, diagonal(c), diag_mask(c))
    /\ UNCHANGED <<army, board>>

AntidiagMask ==
    /\ ret.op = "none"
    /\ \E c \in Cell : Mask("antidiag_mask", c, anti_diagonal(c), antidiag_mask(c))
    /\ UNCHANGED <<army, board>>

NextMasks ==
    \/ FileMask
    \/ RankMask
    \/ DiagMask
    \/ AntidiagMask

\* the masks of the file, rank, diagonal and anti-diagonal of a cell
SpecMasks == InitCells /\ [][NextMasks]_vars

\* C22: the ChessMove built by ChessMove::new gives back its arguments:
\* moved_piece(), start_cell(), destination_cell(), taken_piece() and
\* promoted_piece() return what was given (None for no piece); the bit fields
\* do not overlap and bit 31 is never set; Pawn e2-e3 is 0x4050C1B5.
C22_MoveRoundTrip ==
    /\ ret.op = "moved_piece" => (~ret.panic /\ ret.val = ret.moved)
    /\ ret.op = "start_cell" => (~ret.panic /\ ret.val = ret.start)
    /\ ret.op = "destination_cell" => (~ret.panic /\ ret.val = ret.dest)
    /\ ret.op = "taken_piece" => (~ret.panic /\ ret.val = ret.taken)
    /\ ret.op = "promoted_piece" => (~ret.panic /\ ret.val = ret.promoted)
    /\ ret.op = "chess_move_new" =>
          /\ ~ret.panic
          /\ ret.m \in 0 .. 2147483647
          /\ \E t \in 0 .. 6, p \in 0 .. 6, ep \in 0 .. 64 :
                /\ t = 6 <=> ret.taken = "None"
                /\ p = 6 <=> ret.promoted = "None"
                /\ ret.m = piece_as_u32(ret.moved) + 8 * t + 64 * p + 4096 * ret.start
                           + 262144 * ret.dest + 16777216 * ep
    /\ ret.op = "none" =>
          ChessMove_new("Pawn", 12, 20, "None", "None").m = 1079034293

\* a move that takes and promotes, read back
C22_Witness ==
    /\ ret.op = "promoted_piece"
    /\ ret.taken = "Rook"
    /\ ret.val = "Knight"
    /\ ret.start = 63

\* C23: en_passant_cell() is the cell between start and destination iff the
\* moved piece is a Pawn and the move is start + 16 from rank 2 or start - 16
\* from rank 7; it is None for every other move, and ChessMove::new never
\* panics.
C23_EnPassantOnDoubleStep ==
    /\ ret.op = "chess_move_new" => ~ret.panic
    /\ ret.op = "en_passant_cell" =>
          /\ ~ret.panic
          /\ ret.val =
               (IF /\ ret.moved = "Pawn"
                   /\ \/ (ret.start \div 8 = 1 /\ ret.dest = ret.start + 16)
                      \/ (ret.start \div 8 = 6 /\ ret.dest = ret.start - 16)
                THEN (ret.start + ret.dest) \div 2
                ELSE None)

\* a pawn that goes from rank 7 to rank 5
C23_Witness ==
    /\ ret.op = "en_passant_cell"
    /\ ret.moved = "Pawn"
    /\ ret.start = 51
    /\ ret.val = 43

\* C24: pawn_controlled_cells(c, colour) is {nw(c), ne(c)} for White and
\* {sw(c), se(c)} for Black, without the neighbours that do not exist: the
\* cells one file aside and one rank ahead; one cell only on file A or H, no
\* cell for White on rank 8 or Black on rank 1.
C24_PawnControlsDiagonalsAhead ==
    ret.op = "pawn_controlled_cells" =>
        LET ahead == IF ret.ac = "White" THEN 1 ELSE 0 - 1
            f == ret.c % 8
            r == ret.c \div 8
        IN  /\ ret.bb = (IF ret.ac = "White" THEN {nw(ret.c), ne(ret.c)}
                         ELSE {sw(ret.c), se(ret.c)}) \ {None}
            /\ ret.bb = {x \in Cell : /\ x \div 8 = r + ahead
                                      /\ (x % 8 = f - 1 \/ x % 8 = f + 1)}
            /\ (f = 0 \/ f = 7) => Cardinality(ret.bb) <= 1
            /\ (ret.ac = "White" /\ r = 7) => ret.bb = {}
            /\ (ret.ac = "Black" /\ r = 0) => ret.bb = {}

\* a Black pawn on H6 controls G5 only
C24_Witness ==
    /\ ret.op = "pawn_controlled_cells"
    /\ ret.ac = "Black"
    /\ ret.c = 47
    /\ ret.bb = {38}

\* C25: get_piece_in_cell(c) is the first piece in the order King, Queen,
\* Bishop, Knight, Rook, Pawn whose bitboard has c active, also when several
\* bitboards have it, and None iff c is not active in occupied_cells().
C25_FirstPieceInFixedOrder ==
    ret.op = "get_piece_in_cell" =>
        LET order == <<"King", "Queen", "Bishop", "Knight", "Rook", "Pawn">>
            holders == {i \in 1 .. 6 : ret.c \in army.pieces_bmask[order[i]]}
        IN  /\ holders = {} => ret.piece = "None"
            /\ holders # {} =>
                  \E i \in holders : /\ \A j \in holders : i <= j
                                     /\ ret.piece = order[i]
            /\ ret.piece = "None" <=> ret.c \notin occupied_cells(army)

\* a cell held by a Knight and a Pawn of the same army
C25_Witness ==
    /\ ret.op = "get_piece_in_cell"
    /\ ret.c \in army.pieces_bmask["Knight"] \cap army.pieces_bmask["Pawn"]
    /\ ret.piece = "Knight"

\* C26: the mask tables agree with the coordinate functions on the 64 cells:
\* bit c of FILES_BBS[i] is set iff file(c) = i, bit c of RANKS_BBS[i] iff
\* rank(c) = i, bit c of DIAGS_BBS[d] iff diagonal(c) = file(c) - rank(c) + 7
\* = d, bit c of ANTIDIAGS_BBS[a] iff anti_diagonal(c) = file(c) + rank(c)
\* = a; so the mask of a cell holds the cell and each family partitions the
\* board.
C26_MasksAgreeWithCoordinates ==
    /\ ret.op = "file_mask" =>
          /\ ret.ndx = ret.c % 8
          /\ ret.bb = {x \in Cell : x % 8 = ret.ndx}
          /\ \A i \in 0 .. 7 : \A x \in Cell : x \in FILES_BBS[i] <=> file(x) = i
    /\ ret.op = "rank_mask" =>
          /\ ret.ndx = ret.c \div 8
          /\ ret.bb = {x \in Cell : x \div 8 = ret.ndx}
          /\ \A i \in 0 .. 7 : \A x \in Cell : x \in RANKS_BBS[i] <=> rank(x) = i
    /\ ret.op = "diag_mask" =>
          /\ ret.ndx = (ret.c % 8) - (ret.c \div 8) + 7
          /\ ret.bb = {x \in Cell : (x % 8) - (x \div 8) = (ret.c % 8) - (ret.c \div 8)}
          /\ \A d \in 0 .. 14 : \A x \in Cell : x \in DIAGS_BBS[d] <=> diagonal(x) = d
    /\ ret.op = "antidiag_mask" =>
          /\ ret.ndx = (ret.c % 8) + (ret.c \div 8)
          /\ ret.bb = {x \in Cell : (x % 8) + (x \div 8) = (ret.c % 8) + (ret.c \div 8)}
          /\ \A a \in 0 .. 14 : \A x \in Cell :
                x \in ANTIDIAGS_BBS[a] <=> anti_diagonal(x) = a
    /\ ret.op \in {"file_mask", "rank_mask", "diag_mask", "antidiag_mask"} =>
          ret.c \in ret.bb

\* the diagonal of C1: C1, D2, E3, F4, G5, H6
C26_Witness ==
    /\ ret.op = "diag_mask"
    /\ ret.c = 2
    /\ ret.ndx = 9
    /\ ret.bb = {2, 11, 20, 29, 38, 47}

\* the cell of the same file on the mirrored rank (rank r -> 7 - r)
MirrorCellRef(c) == 8 * (7 - (c \div 8)) + (c % 8)

MirrorRef(bb) == { MirrorCellRef(c) : c \in bb }

\* the army of the other colour holding the rank-mirrored pieces
MirrorArmyRef(a) ==
    [colour |-> IF a.colour = "White" THEN "Black" ELSE "White",
     pieces_bmask |-> [cp \in ChessPiece |-> MirrorRef(a.pieces_bmask[cp])]]

\* C27: pawn moves are colour-symmetric: the moves of the pawn on c with the
\* interference board I are the rank-mirror image of the moves that the army
\* of the other colour holding the mirrored pieces has at the mirrored cell
\* with the mirrored interference board.
C27_PawnMovesMirror ==
    IsMovesQuery("Pawn") =>
        LET mirrored == possible_moves_for_piece_in_cell(
                            MirrorArmyRef(army), "Pawn", MirrorCellRef(ret.c),
                            MirrorRef(ret.intf))
        IN  /\ ~ret.panic
            /\ ~mirrored.panic
            /\ MirrorRef(ret.bb) = mirrored.bb

\* a White pawn on B2 that steps to B3 and B4 and captures on C3
C27_Witness ==
    /\ IsMovesQuery("Pawn")
    /\ army.colour = "White"
    /\ ret.c = 9
    /\ ret.bb = {17, 25, 18}

\* C28: for an army with pairwise-disjoint piece sets and cp in {Queen,
\* Bishop, Knight, Rook}, the union of possible_moves_for_piece_in_cell(cp,
\* c, intf) over the cells c holding a cp piece is the controlled cells of
\* that piece type with the same intf, minus occupied_cells().
C28_MovesAreControlledMinusOccupied ==
    (/\ ret.op = "controlled_cells_by_piece_type"
     /\ ret.cp \in {"Queen", "Bishop", "Knight", "Rook"}
     /\ Disjoint(army)) =>
        /\ ~ret.panic
        /\ \A c \in get_pieces(army, ret.cp) :
              ~possible_moves_for_piece_in_cell(army, ret.cp, c, ret.intf).panic
        /\ UNION { possible_moves_for_piece_in_cell(army, ret.cp, c, ret.intf).bb :
                     c \in get_pieces(army, ret.cp) }
             = ret.bb \ occupied_cells(army)

\* two rooks on the same rank, each one stopping the other, with a blocker
C28_Witness ==
    /\ IsControlQuery("Rook")
    /\ get_pieces(army, "Rook") = {9, 11}
    /\ ret.intf # {}
    /\ 10 \in ret.bb
    /\ 12 \in ret.bb
    /\ 11 \in ret.bb

\* C29: for an army with pairwise-disjoint piece sets and exactly one king
\* and an interference board that is disjoint from occupied_cells(),
\* possible_moves_for_piece_in_cell(cp, c, intf) holds no cell of
\* occupied_cells(): no move onto a friend, nor onto the cell of the piece.
C29_NoMoveOntoFriends ==
    (/\ ret.op = "possible_moves_for_piece_in_cell"
     /\ Disjoint(army)
     /\ Cardinality(get_pieces(army, "King")) = 1
     /\ ret.intf \cap occupied_cells(army) = {}) =>
        /\ ~ret.panic
        /\ ret.bb \cap occupied_cells(army) = {}
        /\ ret.c \in get_pieces(army, ret.cp) => ret.c \notin ret.bb

\* a White pawn on B2 with its king on C3: C3 is controlled and is no move
C29_Witness ==
    /\ IsMovesQuery("Pawn")
    /\ army.colour = "White"
    /\ get_pieces(army, "King") = {18}
    /\ ret.c = 9
    /\ ret.intf = {19, 33}
    /\ ret.bb = {17, 25}

\* C30: blockers never enlarge the attack set: for an army with pairwise
\* disjoint piece sets and exactly one king and interference boards I1
\* subset of I2, controlled_cells(I2) is a subset of controlled_cells(I1);
\* the contributions of the king, the knights and the pawns are the same
\* under every interference board.
C30_BlockersNeverEnlarge ==
    (/\ ret.op = "controlled_cells"
     /\ Disjoint(army)
     /\ Cardinality(get_pieces(army, "King")) = 1) =>
        /\ ~ret.panic
        /\ \A I1 \in SUBSET ret.intf :
              /\ ~controlled_cells(army, I1).panic
              /\ ret.bb \subseteq controlled_cells(army, I1).bb
        /\ \A cp \in {"King", "Knight", "Pawn"} :
              controlled_cells_by_piece_type(army, cp, ret.intf)
                = controlled_cells_by_piece_type(army, cp, BitBoard_new)

\* a rook on B2 whose ray up the file ends on the blocker on B5: with the
\* empty interference board it goes on to B6
C30_Witness ==
    /\ ret.op = "controlled_cells"
    /\ get_pieces(army, "King") = {18}
    /\ get_pieces(army, "Rook") = {9}
    /\ 33 \in ret.intf
    /\ 33 \in ret.bb
    /\ 41 \notin ret.bb
    /\ 41 \in controlled_cells(army, {}).bb


====
